---- MODULE Spec2Model ----
(***************************************************************************)
(* Transaction ingestion and categorization pipeline of budget-tracker.    *)
(*                                                                         *)
(*   - the categorization cache kept in localStorage                       *)
(*     (src/src/utils/categorizationCache.ts)                              *)
(*   - the three-tier categorizeTransactions (src/unnamed/part_002)        *)
(*   - the import of a file: parseCsv and parseCsvFile                     *)
(*     (src/src/utils/categorizationCache.ts), extractTransactionsWithAI   *)
(*     and parsePdfFile (src/src/utils/pdfParser.ts), handleFileSelect     *)
(*     (src/src/components/CsvImportSheet.tsx)                             *)
(*                                                                         *)
(* Strings are TLA+ strings; characters are strings of length one.         *)
(* Confidences are in hundredths (0.95 is 95).  The clock counts seconds:  *)
(* the millisecond value of 30 days does not fit a 32-bit integer, and the *)
(* code only ever subtracts and compares timestamps.                       *)
(***************************************************************************)
EXTENDS Integers, Sequences, FiniteSets, TLC

(***************************************************************************)
(* Strings                                                                 *)
(***************************************************************************)

\* the sentinel standing for JavaScript's undefined
UNDEFINED == "<undefined>"

CharAt(s, i) == SubSeq(s, i, i)

UpperCase == <<"A","B","C","D","E","F","G","H","I","J","K","L","M",
               "N","O","P","Q","R","S","T","U","V","W","X","Y","Z">>
LowerCase == <<"a","b","c","d","e","f","g","h","i","j","k","l","m",
               "n","o","p","q","r","s","t","u","v","w","x","y","z">>
Digits == {"0","1","2","3","4","5","6","7","8","9"}

\* \s of a JavaScript regular expression (the ASCII members)
IsWhitespace(c) == c \in {" ", "\t", "\n", "\r", "\f"}

\* \w of a JavaScript regular expression: [A-Za-z0-9_]
IsWordChar(c) ==
    \/ \E k \in 1..26 : c = UpperCase[k] \/ c = LowerCase[k]
    \/ c \in Digits
    \/ c = "_"

LowerChar(c) ==
    IF \E k \in 1..26 : c = UpperCase[k]
    THEN LowerCase[CHOOSE k \in 1..26 : c = UpperCase[k]]
    ELSE c

\* String.prototype.toLowerCase
RECURSIVE toLowerCase(_)
toLowerCase(s) ==
    IF Len(s) = 0 THEN ""
    ELSE LowerChar(CharAt(s, 1)) \o toLowerCase(SubSeq(s, 2, Len(s)))

RECURSIVE TrimStart(_)
TrimStart(s) ==
    IF Len(s) > 0 /\ IsWhitespace(CharAt(s, 1))
    THEN TrimStart(SubSeq(s, 2, Len(s)))
    ELSE s

RECURSIVE TrimEnd(_)
TrimEnd(s) ==
    IF Len(s) > 0 /\ IsWhitespace(CharAt(s, Len(s)))
    THEN TrimEnd(SubSeq(s, 1, Len(s) - 1))
    ELSE s

\* String.prototype.trim
trim(s) == TrimEnd(TrimStart(s))

\* s.replace(/\s+/g, ' '): every maximal run of whitespace becomes one space
RECURSIVE CollapseWhitespace(_)
CollapseWhitespace(s) ==
    IF Len(s) = 0 THEN ""
    ELSE IF IsWhitespace(CharAt(s, 1))
         THEN " " \o CollapseWhitespace(TrimStart(s))
         ELSE CharAt(s, 1) \o CollapseWhitespace(SubSeq(s, 2, Len(s)))

\* s.replace(/[^\w\s]/g, ''): drop what is neither a word character nor whitespace
RECURSIVE StripSpecial(_)
StripSpecial(s) ==
    IF Len(s) = 0 THEN ""
    ELSE (IF IsWordChar(CharAt(s, 1)) \/ IsWhitespace(CharAt(s, 1))
          THEN CharAt(s, 1) ELSE "")
         \o StripSpecial(SubSeq(s, 2, Len(s)))

\* the descriptions the steps below hand to the pipeline
Descriptions == {"SPAR Market", "Bob", " bob. ", "Zed", "F1"}

\* the chain of toLowerCase, trim and the two replace calls
NormalizeText(description) ==
    StripSpecial(CollapseWhitespace(trim(toLowerCase(description))))

\* NormalizeText of each description, computed once
NormalizedDescriptions == {<<d, NormalizeText(d)>> : d \in Descriptions}

normalizeDescription(description) ==
    IF description \in Descriptions
    THEN (CHOOSE p \in NormalizedDescriptions : p[1] = description)[2]
    ELSE NormalizeText(description)

\* String.prototype.includes
Includes(s, p) ==
    \E i \in 1..(Len(s) - Len(p) + 1) : SubSeq(s, i, i + Len(p) - 1) = p

(***************************************************************************)
(* Rule tier: getRuleBasedCategory                                         *)
(***************************************************************************)

\* [_\s]? between two literals.  The patterns are tested on the normalized
\* description, whose only whitespace character is the space.
OptSep(a, b) == {a \o sep \o b : sep \in {"", "_", " "}}

groceryPatterns ==
    {"checkers", "woolworths", "spar", "shoprite", "food lovers", "dischem",
     "clicks", "pharmacy", "supermarket", "grocery"}
    \cup UNION {OptSep(p, "pay") : p \in OptSep("pick", "n")}

petrolPatterns ==
    {"engen", "shell", "bp", "sasol", "caltex", "total", "petrol", "fuel",
     "gas station", "filling station"}

eatingOutPatterns ==
    {"restaurant", "mcdonald", "kfc", "nandos", "steers", "debonairs", "pizza",
     "coffee", "cafe", "takeaway"}
    \cup OptSep("take", "away") \cup OptSep("uber", "eats")
    \cup UNION {OptSep(p, "food") : p \in OptSep("mr", "d")}

entertainmentPatterns ==
    {"netflix", "spotify", "disney", "showmax", "movie", "cinema", "theatre",
     "game", "playstation", "xbox"}

rentPatterns == {"rent", "landlord", "property", "housing"}

electricityPatterns == {"eskom", "electricity", "power", "prepaid"}

waterPatterns == {"water", "municipality"} \cup OptSep("city", "of")

medicalPatterns ==
    {"discovery", "bonitas", "momentum", "hospital", "doctor", "clinic"}
    \cup OptSep("medical", "aid")

gymPatterns ==
    {"gym", "fitness"} \cup OptSep("virgin", "active")
    \cup OptSep("planet", "fitness")

internetPatterns ==
    {"vodacom", "mtn", "telkom", "afrihost", "webafrica", "internet", "fibre",
     "broadband"}
    \cup OptSep("cell", "c")

\* the pattern lists in the order the function tries them
RuleTable ==
    << [category |-> "groceries",     patterns |-> groceryPatterns],
       [category |-> "petrol",        patterns |-> petrolPatterns],
       [category |-> "eatingOut",     patterns |-> eatingOutPatterns],
       [category |-> "entertainment", patterns |-> entertainmentPatterns],
       [category |-> "rent",          patterns |-> rentPatterns],
       [category |-> "electricity",   patterns |-> electricityPatterns],
       [category |-> "water",         patterns |-> waterPatterns],
       [category |-> "medicalAid",    patterns |-> medicalPatterns],
       [category |-> "gym",           patterns |-> gymPatterns],
       [category |-> "internet",      patterns |-> internetPatterns] >>

RuleMatches(k, normalized) ==
    \E p \in RuleTable[k].patterns : Includes(normalized, p)

\* the category of the first pattern list that matches
FirstRuleMatch(description) ==
    LET normalized == normalizeDescription(description)
        hits == {k \in DOMAIN RuleTable : RuleMatches(k, normalized)}
    IN  IF hits = {} THEN UNDEFINED
        ELSE RuleTable[CHOOSE k \in hits : \A j \in hits : k <= j].category

\* FirstRuleMatch of each description, computed once
RuleCategories == {<<d, FirstRuleMatch(d)>> : d \in Descriptions}

getRuleBasedCategory(description) ==
    IF description \in Descriptions
    THEN (CHOOSE p \in RuleCategories : p[1] = description)[2]
    ELSE FirstRuleMatch(description)

(***************************************************************************)
(* Cache tier: the CategoryCache object persisted under CACHE_KEY.         *)
(* The object is a sequence of entries in property enumeration order       *)
(* (insertion order: the keys of the model are not integer-like strings);  *)
(* JSON.stringify followed by JSON.parse keeps keys, values and order.     *)
(***************************************************************************)

CACHE_EXPIRY_DAYS == 30

\* CACHE_EXPIRY_DAYS * 24 * 60 * 60 * 1000 ms, in seconds
expiryTime == CACHE_EXPIRY_DAYS * 24 * 60 * 60

\* the number of entries cacheCategory keeps
CACHE_MAX_ENTRIES == 1000

CachedCategory(key, category, confidence, timestamp) ==
    [key |-> key, category |-> category, confidence |-> confidence,
     timestamp |-> timestamp]

CacheKeys(cache) == {cache[i].key : i \in DOMAIN cache}

HasKey(cache, key) == \E i \in DOMAIN cache : cache[i].key = key

\* cache[normalizedDesc]
CacheGet(cache, key) == cache[CHOOSE i \in DOMAIN cache : cache[i].key = key]

\* delete cache[normalizedDesc]
CacheDelete(cache, key) == SelectSeq(cache, LAMBDA e : e.key # key)

\* cache[normalizedDesc] = entry: an existing property keeps its place
CacheSet(cache, entry) ==
    IF HasKey(cache, entry.key)
    THEN [i \in DOMAIN cache |->
             IF cache[i].key = entry.key THEN entry ELSE cache[i]]
    ELSE Append(cache, entry)

\* getCachedCategory with the expiry test written >= instead of >
getCachedCategory_expiresAtLimit(cache, description, now) ==
    LET normalizedDesc == normalizeDescription(description)
    IN  IF Len(cache) = 0 THEN UNDEFINED
        ELSE IF ~HasKey(cache, normalizedDesc) THEN UNDEFINED
        ELSE IF now - CacheGet(cache, normalizedDesc).timestamp >= expiryTime
             THEN UNDEFINED
             ELSE CacheGet(cache, normalizedDesc).category

\* the value getCachedCategory returns
getCachedCategory(cache, description, now) ==
    LET normalizedDesc == normalizeDescription(description)
    IN  IF Len(cache) = 0 THEN UNDEFINED
        ELSE IF ~HasKey(cache, normalizedDesc) THEN UNDEFINED
        ELSE IF now - CacheGet(cache, normalizedDesc).timestamp > expiryTime
             THEN UNDEFINED
             ELSE CacheGet(cache, normalizedDesc).category

\* the cache getCachedCategory leaves in localStorage
getCachedCategoryStore(cache, description, now) ==
    LET normalizedDesc == normalizeDescription(description)
    IN  IF Len(cache) = 0 THEN cache
        ELSE IF ~HasKey(cache, normalizedDesc) THEN cache
        ELSE IF now - CacheGet(cache, normalizedDesc).timestamp > expiryTime
             THEN CacheDelete(cache, normalizedDesc)
             ELSE cache

\* the sort with the comparator reversed (a[1].timestamp - b[1].timestamp)
RECURSIVE SortOldestFirst(_)
SortOldestFirst(entries) ==
    IF Len(entries) = 0 THEN << >>
    ELSE LET oldest == CHOOSE t \in {entries[i].timestamp : i \in DOMAIN entries} :
                          \A i \in DOMAIN entries : entries[i].timestamp >= t
         IN  SelectSeq(entries, LAMBDA e : e.timestamp = oldest)
             \o SortOldestFirst(SelectSeq(entries, LAMBDA e : e.timestamp # oldest))

\* entries.sort((a, b) => b[1].timestamp - a[1].timestamp): a stable sort,
\* newest first; entries of equal timestamp keep their relative order
RECURSIVE SortNewestFirst(_)
SortNewestFirst(entries) ==
    IF Len(entries) = 0 THEN << >>
    ELSE LET newest == CHOOSE t \in {entries[i].timestamp : i \in DOMAIN entries} :
                          \A i \in DOMAIN entries : entries[i].timestamp <= t
         IN  SelectSeq(entries, LAMBDA e : e.timestamp = newest)
             \o SortNewestFirst(SelectSeq(entries, LAMBDA e : e.timestamp # newest))

\* the cache cacheCategory leaves in localStorage
cacheCategory(cache, description, category, confidence, now) ==
    LET entries == CacheSet(cache, CachedCategory(normalizeDescription(description),
                                                  category, confidence, now))
    IN  IF Len(entries) > CACHE_MAX_ENTRIES
        THEN SubSeq(SortNewestFirst(entries), 1, CACHE_MAX_ENTRIES)
        ELSE entries

(***************************************************************************)
(* Delegate tier: categorizeTransactions                                   *)
(*                                                                         *)
(* A request is {description, amount}; its date is copied to the result    *)
(* like the amount and is left out.  Amounts are in cents.                 *)
(***************************************************************************)

VALID_CATEGORIES ==
    <<"groceries", "petrol", "eatingOut", "entertainment", "random", "rent",
      "electricity", "water", "medicalAid", "gym", "internet">>

IsValidCategory(category) == \E k \in DOMAIN VALID_CATEGORIES : VALID_CATEGORIES[k] = category

\* an absent or undefined number
NoConfidence == -1

\* the truthiness of a string or undefined
Truthy(x) == x # UNDEFINED /\ x # ""

\* an element of the sparse array results that was never assigned
Unset == [category |-> UNDEFINED, confidence |-> NoConfidence]

\* the for loop over transactions: rule tier, cache tier, or queue for the
\* delegate; acc holds toCategorize, results and the persisted cache
RECURSIVE PreProcess(_, _, _, _)
PreProcess(i, transactions, acc, now) ==
    IF i > Len(transactions) THEN acc
    ELSE
      LET t             == transactions[i]
          ruleCategory  == getRuleBasedCategory(t.description)
          cachedCategory == getCachedCategory(acc.cache, t.description, now)
      IN  IF Truthy(ruleCategory)
          THEN PreProcess(i + 1, transactions,
                 [acc EXCEPT !.results[i] = [category |-> ruleCategory, confidence |-> 95],
                             !.cache = cacheCategory(acc.cache, t.description,
                                                     ruleCategory, 95, now)],
                 now)
          ELSE IF Truthy(cachedCategory)
          THEN PreProcess(i + 1, transactions,
                 [acc EXCEPT !.results[i] = [category |-> cachedCategory, confidence |-> 90],
                             !.cache = getCachedCategoryStore(acc.cache, t.description, now)],
                 now)
          ELSE PreProcess(i + 1, transactions,
                 [acc EXCEPT !.toCategorize =
                                 Append(@, [transaction |-> t, index |-> i]),
                             !.cache = getCachedCategoryStore(acc.cache, t.description, now)],
                 now)

\* toCategorize.length === 0
AllResolved_never(toCategorize) == FALSE

AllResolved(toCategorize) == Len(toCategorize) = 0

\* the early return: the result built from results alone
AssembleResolved(transactions, results) ==
    [idx \in 1..Len(transactions) |->
        [description |-> transactions[idx].description,
         amount      |-> transactions[idx].amount,
         category    |-> results[idx].category,
         confidence  |-> results[idx].confidence]]

\* VALID_CATEGORIES.find(cat => line.toLowerCase().includes(cat.toLowerCase()))
FindValidCategory(line) ==
    LET hits == {k \in DOMAIN VALID_CATEGORIES :
                    Includes(toLowerCase(line), toLowerCase(VALID_CATEGORIES[k]))}
    IN  IF hits = {} THEN UNDEFINED
        ELSE VALID_CATEGORIES[CHOOSE k \in hits : \A j \in hits : k <= j]

\* lines is content.split('\n')
fallbackParseCategories(lines, expectedCount) ==
    [i \in 1..expectedCount |->
        LET line          == IF i <= Len(lines) THEN lines[i] ELSE ""
            foundCategory == FindValidCategory(line)
        IN  [index      |-> i,
             category   |-> IF Truthy(foundCategory) THEN foundCategory ELSE "random",
             confidence |-> IF Truthy(foundCategory) THEN 70 ELSE 50]]

\* categorizations.find(c => c.index === n), or Unset when there is none
FindByIndex(categorizations, n) ==
    IF \E k \in DOMAIN categorizations : categorizations[k].index = n
    THEN LET first == CHOOSE k \in DOMAIN categorizations :
                         /\ categorizations[k].index = n
                         /\ \A j \in DOMAIN categorizations :
                               categorizations[j].index = n => k <= j
         IN  [category   |-> categorizations[first].category,
              confidence |-> categorizations[first].confidence]
    ELSE Unset

\* categorizations.forEach: each answer whose index names a queued item is
\* written to the cache under that item's description
RECURSIVE CacheCategorizations(_, _, _, _, _)
CacheCategorizations(k, categorizations, toCategorize, cache, now) ==
    IF k > Len(categorizations) THEN cache
    ELSE LET cat == categorizations[k]
         IN  CacheCategorizations(k + 1, categorizations, toCategorize,
               IF cat.index \in DOMAIN toCategorize
               THEN cacheCategory(cache, toCategorize[cat.index].transaction.description,
                                  cat.category,
                                  IF cat.confidence = NoConfidence \/ cat.confidence = 0
                                  THEN 80 ELSE cat.confidence,
                                  now)
               ELSE cache,
               now)

\* toCategorize.forEach: results[item.index] from the answer found under the
\* item's position in the request
MergeResults(toCategorize, categorizations, results) ==
    [i \in DOMAIN results |->
        IF \E j \in DOMAIN toCategorize : toCategorize[j].index = i
        THEN LET j   == CHOOSE j \in DOMAIN toCategorize : toCategorize[j].index = i
                 cat == FindByIndex(categorizations, j)
             IN  [category   |-> IF Truthy(cat.category) THEN cat.category ELSE "random",
                  confidence |-> IF cat.confidence = NoConfidence \/ cat.confidence = 0
                                 THEN 50 ELSE cat.confidence]
        ELSE results[i]]

\* the final transactions.map: the answer is looked up under the position
\* of the transaction in the batch
MapCategorizations(transactions, categorizations) ==
    [idx \in 1..Len(transactions) |->
        LET cat      == FindByIndex(categorizations, idx)
            category == IF Truthy(cat.category) THEN cat.category ELSE "random"
        IN  [description |-> transactions[idx].description,
             amount      |-> transactions[idx].amount,
             category    |-> IF IsValidCategory(category) THEN category ELSE "random",
             confidence  |-> cat.confidence]]

(***************************************************************************)
(* Delimited text: parseCsv                                                *)
(*                                                                         *)
(* A text is the sequence of its lines, what split(/\r?\n/) makes of it.   *)
(* Amounts are in thousandths.  The optional reference of a transaction is *)
(* copied from its column and is left out.  Column indexes count from 1,   *)
(* and 0 stands for the code's -1.                                         *)
(***************************************************************************)

ParsedTransaction(date, description, amount) ==
    [date |-> date, description |-> description, amount |-> amount]

ParseResult(transactions, errors) ==
    [transactions |-> transactions, errors |-> errors]

\* new Date().toISOString().split('T')[0]
Today == "2025-01-31"

IsDigits(s) == \A i \in 1..Len(s) : CharAt(s, i) \in Digits

DigitValue(c) == CHOOSE n \in 0..9 : ToString(n) = c

\* the number a string of digits denotes
RECURSIVE Natural(_)
Natural(s) ==
    IF Len(s) = 0 THEN 0
    ELSE 10 * Natural(SubSeq(s, 1, Len(s) - 1)) + DigitValue(CharAt(s, Len(s)))

Abs(n) == IF n < 0 THEN -n ELSE n

\* /^\d{a}[seps]\d{b}[seps]\d{c}$/
DateShape(t, a, b, c, seps) ==
    /\ Len(t) = a + b + c + 2
    /\ IsDigits(SubSeq(t, 1, a))
    /\ CharAt(t, a + 1) \in seps
    /\ IsDigits(SubSeq(t, a + 2, a + b + 1))
    /\ CharAt(t, a + b + 2) \in seps
    /\ IsDigits(SubSeq(t, a + b + 3, a + b + c + 2))

\* new Date(s) followed by toISOString().split('T')[0], for the one form
\* among the model's strings that the constructor accepts and the patterns
\* do not: a UTC timestamp YYYY-MM-DDThh:mm:ssZ
NativeDate(t) ==
    IF /\ Len(t) = 20
       /\ DateShape(SubSeq(t, 1, 10), 4, 2, 2, {"-"})
       /\ CharAt(t, 11) = "T"
       /\ DateShape(SubSeq(t, 12, 19), 2, 2, 2, {":"})
       /\ CharAt(t, 20) = "Z"
    THEN SubSeq(t, 1, 10)
    ELSE UNDEFINED

parseDate(dateStr) ==
    IF dateStr = "" THEN Today
    ELSE LET trimmed == trim(dateStr)
         IN  IF DateShape(trimmed, 4, 2, 2, {"-"}) THEN trimmed
             ELSE IF DateShape(trimmed, 2, 2, 4, {"/", "-", "."})
             THEN SubSeq(trimmed, 7, 10) \o "-" \o SubSeq(trimmed, 4, 5)
                  \o "-" \o SubSeq(trimmed, 1, 2)
             ELSE IF DateShape(trimmed, 4, 2, 2, {"/", "-", "."})
             THEN SubSeq(trimmed, 1, 4) \o "-" \o SubSeq(trimmed, 6, 7)
                  \o "-" \o SubSeq(trimmed, 9, 10)
             ELSE IF NativeDate(trimmed) # UNDEFINED THEN NativeDate(trimmed)
             ELSE Today

\* s.replace(/[R$\s,]/g, '')
RECURSIVE StripCurrency(_)
StripCurrency(s) ==
    IF Len(s) = 0 THEN ""
    ELSE (IF CharAt(s, 1) \in {"R", "$", ","} \/ IsWhitespace(CharAt(s, 1))
          THEN "" ELSE CharAt(s, 1))
         \o StripCurrency(SubSeq(s, 2, Len(s)))

RECURSIVE LeadingDigits(_)
LeadingDigits(s) ==
    IF Len(s) > 0 /\ CharAt(s, 1) \in Digits
    THEN CharAt(s, 1) \o LeadingDigits(SubSeq(s, 2, Len(s)))
    ELSE ""

NaN == [nan |-> TRUE, value |-> 0]

\* parseFloat: the longest prefix [+-]digits[.digits] with at least one
\* digit, in thousandths (no string of the model has an exponent or more
\* than three decimals)
parseFloat(str) ==
    LET s == TrimStart(str)
        signed == Len(s) > 0 /\ CharAt(s, 1) \in {"+", "-"}
        body == IF signed THEN SubSeq(s, 2, Len(s)) ELSE s
        int == LeadingDigits(body)
        rest == SubSeq(body, Len(int) + 1, Len(body))
        frac == IF Len(rest) > 0 /\ CharAt(rest, 1) = "."
                THEN LeadingDigits(SubSeq(rest, 2, Len(rest)))
                ELSE ""
        magnitude == 1000 * Natural(int) + Natural(SubSeq(frac \o "000", 1, 3))
    IN  IF Len(int) + Len(frac) = 0 THEN NaN
        ELSE [nan |-> FALSE,
              value |-> IF signed /\ CharAt(s, 1) = "-" THEN -magnitude
                        ELSE magnitude]

parseAmount(amountStr) ==
    IF amountStr = "" THEN 0
    ELSE LET parsed == parseFloat(trim(StripCurrency(amountStr)))
         IN  IF parsed.nan THEN 0 ELSE Abs(parsed.value)

\* String.prototype.split(',')
RECURSIVE SplitComma(_, _)
SplitComma(s, current) ==
    IF Len(s) = 0 THEN <<current>>
    ELSE IF CharAt(s, 1) = ","
         THEN <<current>> \o SplitComma(SubSeq(s, 2, Len(s)), "")
         ELSE SplitComma(SubSeq(s, 2, Len(s)), current \o CharAt(s, 1))

\* h.replace(/^"|"$/g, '')
StripQuotes(h) ==
    LET front == IF Len(h) > 0 /\ CharAt(h, 1) = "\""
                 THEN SubSeq(h, 2, Len(h)) ELSE h
    IN  IF Len(front) > 0 /\ CharAt(front, Len(front)) = "\""
        THEN SubSeq(front, 1, Len(front) - 1) ELSE front

\* the first position of a sequence that satisfies Test, 0 when none does
FindIndex(s, Test(_)) ==
    IF \E k \in 1..Len(s) : Test(s[k])
    THEN CHOOSE k \in 1..Len(s) : Test(s[k]) /\ \A j \in 1..(k - 1) : ~Test(s[j])
    ELSE 0

RECURSIVE FindColumn(_, _, _)
FindColumn(k, normalizedHeaders, possibleNames) ==
    IF k > Len(possibleNames) THEN 0
    ELSE LET normalized == trim(toLowerCase(possibleNames[k]))
             index == FindIndex(normalizedHeaders,
                          LAMBDA h : Includes(h, normalized) \/ Includes(normalized, h))
         IN  IF index # 0 THEN index
             ELSE FindColumn(k + 1, normalizedHeaders, possibleNames)

findColumnIndex(headers, possibleNames) ==
    FindColumn(1, [k \in 1..Len(headers) |-> trim(toLowerCase(headers[k]))],
               possibleNames)

\* the character loop of a data row: commas outside quotes end a value,
\* quotes are dropped
RECURSIVE SplitRow(_, _, _)
SplitRow(line, current, inQuotes) ==
    IF Len(line) = 0 THEN <<trim(current)>>
    ELSE LET char == CharAt(line, 1)
             rest == SubSeq(line, 2, Len(line))
         IN  IF char = "\"" THEN SplitRow(rest, current, ~inQuotes)
             ELSE IF char = "," /\ ~inQuotes
                  THEN <<trim(current)>> \o SplitRow(rest, "", FALSE)
                  ELSE SplitRow(rest, current \o char, inQuotes)

\* values[index] || ''
ValueAt(values, index) ==
    IF index \in 1..Len(values) THEN values[index] ELSE ""

\* a row loop that leaves out a row equal to one it already emitted
RECURSIVE ParseRows_merging(_, _, _, _, _, _)
ParseRows_merging(i, lines, dateIndex, descriptionIndex, amountIndex, transactions) ==
    IF i > Len(lines) THEN transactions
    ELSE LET values == SplitRow(lines[i], "", FALSE)
             description == trim(ValueAt(values, descriptionIndex))
             amountStr == ValueAt(values, amountIndex)
             amount == parseAmount(amountStr)
             t == ParsedTransaction(parseDate(ValueAt(values, dateIndex)),
                                    description, amount)
             skip == \/ (description = "" /\ amountStr = "")
                     \/ amount = 0
                     \/ \E k \in 1..Len(transactions) : transactions[k] = t
         IN  ParseRows_merging(i + 1, lines, dateIndex, descriptionIndex,
                 amountIndex,
                 IF skip THEN transactions ELSE Append(transactions, t))

\* the data rows from row i on
RECURSIVE ParseRows(_, _, _, _, _, _)
ParseRows(i, lines, dateIndex, descriptionIndex, amountIndex, transactions) ==
    IF i > Len(lines) THEN transactions
    ELSE LET values == SplitRow(lines[i], "", FALSE)
             dateStr == ValueAt(values, dateIndex)
             description == trim(ValueAt(values, descriptionIndex))
             amountStr == ValueAt(values, amountIndex)
             amount == parseAmount(amountStr)
             date == parseDate(dateStr)
             skip == (description = "" /\ amountStr = "") \/ amount = 0
         IN  ParseRows(i + 1, lines, dateIndex, descriptionIndex, amountIndex,
                 IF skip THEN transactions
                 ELSE Append(transactions,
                             ParsedTransaction(date, description, amount)))

dateNames == <<"date", "transaction date", "posting date", "value date">>

descriptionNames ==
    <<"description", "details", "narration", "reference",
      "transaction details", "particulars", "memo">>

amountNames == <<"amount", "debit", "credit", "value", "transaction amount">>

\* a validation that reports the first column it misses only
ColumnErrors_firstOnly(dateIndex, descriptionIndex, amountIndex) ==
    IF dateIndex = 0
    THEN <<"Could not find Date column. Expected: date, transaction date, posting date, or value date">>
    ELSE IF descriptionIndex = 0
    THEN <<"Could not find Description column. Expected: description, details, narration, or reference">>
    ELSE IF amountIndex = 0
    THEN <<"Could not find Amount column. Expected: amount, debit, credit, or value">>
    ELSE << >>

\* the validation of the required columns, lines 386-395
ColumnErrors(dateIndex, descriptionIndex, amountIndex) ==
    (IF dateIndex = 0
     THEN <<"Could not find Date column. Expected: date, transaction date, posting date, or value date">>
     ELSE << >>)
    \o (IF descriptionIndex = 0
        THEN <<"Could not find Description column. Expected: description, details, narration, or reference">>
        ELSE << >>)
    \o (IF amountIndex = 0
        THEN <<"Could not find Amount column. Expected: amount, debit, credit, or value">>
        ELSE << >>)

\* parseCsv without the test of lines 455-457
parseCsv_withoutFinalError(csvContent) ==
    LET lines == SelectSeq(csvContent, LAMBDA line : Len(trim(line)) > 0)
        raw == SplitComma(lines[1], "")
        headers == [k \in 1..Len(raw) |-> StripQuotes(trim(raw[k]))]
        dateIndex == findColumnIndex(headers, dateNames)
        descriptionIndex == findColumnIndex(headers, descriptionNames)
        amountIndex == findColumnIndex(headers, amountNames)
        columnErrors == ColumnErrors(dateIndex, descriptionIndex, amountIndex)
        transactions ==
            ParseRows(2, lines, dateIndex, descriptionIndex, amountIndex, << >>)
    IN  IF Len(lines) = 0
        THEN ParseResult(<< >>, <<"CSV file is empty">>)
        ELSE IF Len(lines) < 2
        THEN ParseResult(<< >>,
                 <<"CSV file must have at least a header row and one data row">>)
        ELSE IF Len(columnErrors) > 0 THEN ParseResult(<< >>, columnErrors)
        ELSE ParseResult(transactions, << >>)

parseCsv(csvContent) ==
    LET lines == SelectSeq(csvContent, LAMBDA line : Len(trim(line)) > 0)
        raw == SplitComma(lines[1], "")
        headers == [k \in 1..Len(raw) |-> StripQuotes(trim(raw[k]))]
        dateIndex == findColumnIndex(headers, dateNames)
        descriptionIndex == findColumnIndex(headers, descriptionNames)
        amountIndex == findColumnIndex(headers, amountNames)
        columnErrors == ColumnErrors(dateIndex, descriptionIndex, amountIndex)
        transactions ==
            ParseRows(2, lines, dateIndex, descriptionIndex, amountIndex, << >>)
    IN  IF Len(lines) = 0
        THEN ParseResult(<< >>, <<"CSV file is empty">>)
        ELSE IF Len(lines) < 2
        THEN ParseResult(<< >>,
                 <<"CSV file must have at least a header row and one data row">>)
        ELSE IF Len(columnErrors) > 0 THEN ParseResult(<< >>, columnErrors)
        ELSE IF Len(transactions) = 0
        THEN ParseResult(<< >>, <<"No valid transactions found in CSV file">>)
        ELSE ParseResult(transactions, << >>)

\* the delimited texts of the model's files
CsvTexts ==
    { << >>,
      <<"Date,Description,Amount">>,
      <<"Date,Amount", "2024-01-15,12.50">>,
      <<"Date,Description,Amount", "15/01/2024,\"Shop, A\",R12.50", "",
        "2024-01-16,Zed,0", "n/a,Bob,-1 200.5">> }

\* parseCsv of each text, computed once
ParsedCsvTexts == {<<text, parseCsv(text)>> : text \in CsvTexts}

ParsedCsv(text) == (CHOOSE p \in ParsedCsvTexts : p[1] = text)[2]

(***************************************************************************)
(* PDF text: the chunk splitter, the delegate's answer to a chunk, the     *)
(* duplicate filters and the pattern-matching fallback                     *)
(*                                                                         *)
(* A PDF text is the sequence of its lines, what split('\n') makes of it;  *)
(* a line is its length and the transactions that the scan of              *)
(* extractTransactionsPatternMatching emits on reaching it.  A line of     *)
(* positive length has a character that is not whitespace.  Chunks are     *)
(* numbered from 1.                                                        *)
(***************************************************************************)

Line(length, located) == [length |-> length, located |-> located]

\* pdfText.length: the lines and the newlines between them
RECURSIVE TextLength(_)
TextLength(lines) ==
    IF Len(lines) = 0 THEN 0
    ELSE lines[1].length + (IF Len(lines) > 1 THEN 1 ELSE 0)
         + TextLength(Tail(lines))

\* !pdfText || pdfText.trim().length === 0
IsBlankText(lines) == \A k \in 1..Len(lines) : lines[k].length = 0

maxChunkSize == 12000

\* the loop over the lines; a chunk is its length
RECURSIVE SplitLoop(_, _, _, _)
SplitLoop(k, lines, chunks, currentChunk) ==
    IF k > Len(lines)
    THEN IF currentChunk > 0 THEN Append(chunks, currentChunk) ELSE chunks
    ELSE IF currentChunk + lines[k].length > maxChunkSize /\ currentChunk > 0
         THEN SplitLoop(k + 1, lines, Append(chunks, currentChunk),
                        lines[k].length + 1)
         ELSE SplitLoop(k + 1, lines, chunks, currentChunk + lines[k].length + 1)

SplitChunks(pdfText) ==
    IF TextLength(pdfText) > maxChunkSize
    THEN SplitLoop(1, pdfText, << >>, 0)
    ELSE <<TextLength(pdfText)>>

\* 0.01, in thousandths
AmountTolerance == 10

RECURSIVE Pick(_, _, _)
Pick(self, kept, index) ==
    IF index > Len(self) THEN << >>
    ELSE (IF index \in kept THEN <<self[index]>> ELSE << >>)
         \o Pick(self, kept, index + 1)

\* self.filter((t, index, self) => index === self.findIndex((tt) => Same(tt, t)))
FirstOccurrences(self, Same(_, _)) ==
    Pick(self,
         {index \in 1..Len(self) :
             index = FindIndex(self, LAMBDA tt : Same(tt, self[index]))},
         1)

\* the duplicate test of extractTransactionsWithAI
SameExtracted(tt, t) ==
    /\ tt.date = t.date
    /\ tt.description = t.description
    /\ Abs(tt.amount - t.amount) < AmountTolerance

\* the duplicate test of extractTransactionsPatternMatching
SameLocated(tt, t) ==
    /\ tt.date = t.date
    /\ Abs(tt.amount - t.amount) < AmountTolerance
    /\ \/ tt.description = t.description
       \/ /\ Len(tt.description) > 10
          /\ Len(t.description) > 10
          /\ SubSeq(tt.description, 1, 10) = SubSeq(t.description, 1, 10)

RECURSIVE Located(_)
Located(lines) ==
    IF Len(lines) = 0 THEN << >> ELSE lines[1].located \o Located(Tail(lines))

\* the filter that ends extractTransactionsWithAI
DedupExtracted(allTransactions) == FirstOccurrences(allTransactions, SameExtracted)

\* a filter that compares a transaction with the one before it only
DedupLocated_adjacent(transactions) ==
    Pick(transactions,
         {index \in 1..Len(transactions) :
             index = 1 \/ ~SameLocated(transactions[index - 1], transactions[index])},
         1)

\* the filter that ends extractTransactionsPatternMatching
DedupLocated(transactions) == FirstOccurrences(transactions, SameLocated)

\* the amount of an amount match of the pattern matching (lines 476-481 and
\* 545): the captured text without commas, spaces, R and $ goes through
\* parseFloat and is pushed when it lies between 0.01 and 1,000,000
LocatedAmount(amountMatch) ==
    LET amount == parseFloat(StripCurrency(amountMatch))
    IN  IF ~amount.nan /\ amount.value > 10 /\ amount.value < 1000000000
        THEN <<Abs(amount.value)>>
        ELSE << >>

extractTransactionsPatternMatching(pdfText) == DedupLocated(Located(pdfText))

Error(name, message) == [name |-> name, message |-> message]

\* nothing was thrown
NoError == Error("", "")

\* the body of a response: whether response.json() parses it, its error
\* member (code 0: no code), whether it has a non-empty choices array,
\* whether a JSON array of transactions can be read out of the content,
\* and the items of that array
Body(json, error, choices, parses, items) ==
    [json |-> json, error |-> error, choices |-> choices, parses |-> parses,
     items |-> items]

ApiError(code, message) == [present |-> TRUE, code |-> code, message |-> message]

NoApiError == [present |-> FALSE, code |-> 0, message |-> ""]

\* fetch rejects: AbortError when the 90 second timer aborts the request,
\* TypeError when the network fails
FetchRejects(name, message) ==
    [kind |-> "rejected", name |-> name, message |-> message, status |-> 0,
     statusText |-> "", body |-> Body(FALSE, NoApiError, FALSE, FALSE, << >>)]

FetchResolves(status, statusText, body) ==
    [kind |-> "resolved", name |-> "", message |-> "", status |-> status,
     statusText |-> statusText, body |-> body]

\* an item of the delegate's array; numeric: its amount is a number
RawItem(date, description, amount, numeric) ==
    [date |-> date, description |-> description, amount |-> amount,
     numeric |-> numeric, null |-> FALSE, text |-> TRUE]

\* an element of the array that is null
NullItem == [RawItem("", "", 0, FALSE) EXCEPT !.null = TRUE]

\* an item whose description is a number or an object, not a string
NonStringDescription(item) == [item EXCEPT !.text = FALSE]

\* the callback of the map throws on the item: t.date of null, or trim of a
\* description that is not a string
MapThrowsOn(item) == item.null \/ ~item.text

\* what transactions.map throws, NoError when it completes
MapError(transactions) ==
    IF \E k \in 1..Len(transactions) : MapThrowsOn(transactions[k])
    THEN LET first == CHOOSE k \in 1..Len(transactions) :
                         /\ MapThrowsOn(transactions[k])
                         /\ \A j \in 1..(k - 1) : ~MapThrowsOn(transactions[j])
         IN  IF transactions[first].null
             THEN Error("TypeError", "Cannot read properties of null (reading 'date')")
             ELSE Error("TypeError", "(intermediate value).trim is not a function")
    ELSE NoError

\* the date of an item.  Of the model's strings the Date constructor
\* accepts the ISO dates only, which toISOString gives back.
ItemDate(date) ==
    IF date = "" THEN Today
    ELSE IF DateShape(date, 4, 2, 2, {"-"}) THEN date
    ELSE IF DateShape(date, 2, 2, 4, {"/", "-", "."})
    THEN SubSeq(date, 7, 10) \o "-" \o SubSeq(date, 4, 5) \o "-" \o SubSeq(date, 1, 2)
    ELSE Today

\* the map of lines 333-363 without the filter of line 364
ValidTransactions_unfiltered(transactions) ==
    [k \in 1..Len(transactions) |->
        ParsedTransaction(
            ItemDate(transactions[k].date),
            trim(transactions[k].description),
            Abs(IF transactions[k].numeric THEN transactions[k].amount
                ELSE 0))]

\* the map and the filter of lines 333-364
ValidTransactions(transactions) ==
    SelectSeq([k \in 1..Len(transactions) |->
                  ParsedTransaction(
                      ItemDate(transactions[k].date),
                      trim(transactions[k].description),
                      Abs(IF transactions[k].numeric THEN transactions[k].amount
                          ELSE 0))],
              LAMBDA t : t.amount > 0 /\ Len(t.description) > 0)

\* what the try of lines 206-251 throws, NoError when it completes
ReadBody(response) ==
    LET data == response.body
        errorMsg == IF data.error.message = "" THEN "Unknown API error"
                    ELSE data.error.message
        errorCode == IF data.error.code = 0 THEN response.status
                     ELSE data.error.code
    IN  IF ~data.json
        THEN Error("SyntaxError", "Unexpected token < in JSON at position 0")
        ELSE IF data.error.present
        THEN IF errorCode = 429 \/ response.status = 429
             THEN Error("Error", "RATE_LIMIT")
             ELSE Error("Error", "AI extraction failed: " \o errorMsg)
        ELSE IF response.status \notin 200..299
        THEN IF response.status = 429
             THEN Error("Error", "RATE_LIMIT")
             ELSE Error("Error", "AI extraction failed: "
                          \o ToString(response.status) \o " " \o response.statusText)
        ELSE NoError

\* catch (parseError), lines 252-277
RethrowParseError(parseError) ==
    IF Includes(parseError.message, "429") \/ Includes(parseError.message, "RATE_LIMIT")
    THEN Error("Error", "RATE_LIMIT")
    ELSE Error("Error", "Invalid JSON response from API: " \o parseError.message)

\* the try of the chunk loop, lines 155-367: the error it throws, or the
\* validated transactions it pushes
ProcessChunk(response) ==
    IF response.kind = "rejected"
    THEN [error |-> Error(response.name, response.message), transactions |-> << >>]
    ELSE IF ReadBody(response) # NoError
    THEN [error |-> RethrowParseError(ReadBody(response)), transactions |-> << >>]
    ELSE IF ~response.body.choices
    THEN [error |-> Error("Error", "API response does not contain choices array"),
          transactions |-> << >>]
    ELSE LET transactions == IF response.body.parses THEN response.body.items
                             ELSE << >>
         IN  IF MapError(transactions) # NoError
             THEN [error |-> MapError(transactions), transactions |-> << >>]
             ELSE [error |-> NoError,
                   transactions |-> ValidTransactions(transactions)]

\* the catch of the chunk loop without the test of i: every error is thrown
ChunkCatch_everyChunk(i, error) ==
    IF error.name = "AbortError"
    THEN Error("Error", "AI extraction timed out after 90 seconds. The PDF may be too large or the API is slow. Try a smaller file or check your internet connection.")
    ELSE error

\* the catch of the chunk loop, lines 368-389: the error it throws, NoError
\* when the loop goes on
ChunkCatch(i, error) ==
    IF error.name = "AbortError"
    THEN Error("Error", "AI extraction timed out after 90 seconds. The PDF may be too large or the API is slow. Try a smaller file or check your internet connection.")
    ELSE IF i = 1 THEN error
    ELSE NoError

\* how extractTransactionsWithAI ended
AiNotCalled == [state |-> "none", transactions |-> << >>, error |-> NoError]

AiRunning == [state |-> "running", transactions |-> << >>, error |-> NoError]

AiReturned(allTransactions) ==
    [state |-> "returned",
     transactions |-> DedupExtracted(allTransactions),
     error |-> NoError]

AiThrew(error) == [state |-> "threw", transactions |-> << >>, error |-> error]

\* what catch (aiError) of parsePdfFile pushes to errors
AiErrorMessage(aiError) ==
    IF Includes(aiError.message, "RATE_LIMIT") \/ Includes(aiError.message, "429")
    THEN "AI rate limit reached. Using pattern matching instead."
    ELSE "AI extraction failed: " \o aiError.message \o ". Trying pattern matching..."

\* parsePdfFile from line 639 on
PatternFallback(pdfText, errors) ==
    LET patternTransactions == extractTransactionsPatternMatching(pdfText)
    IN  ParseResult(patternTransactions,
            IF Len(patternTransactions) = 0
            THEN Append(errors, "No transactions found in PDF. The statement format may not be supported. Please ensure your bank statement contains transaction data with dates and amounts.")
            ELSE errors)

\* parsePdfFile after extractTransactionsWithAI has returned or thrown
AfterAI(pdfText, ai) ==
    IF ai.state = "returned" /\ Len(ai.transactions) > 0
    THEN ParseResult(ai.transactions, << >>)
    ELSE PatternFallback(pdfText,
             IF ai.state = "returned"
             THEN <<"AI extraction completed but found no transactions. The statement format may not be recognized.">>
             ELSE <<AiErrorMessage(ai.error)>>)

\* the promise of parseCsvFile or parsePdfFile
Pending == [state |-> "pending", result |-> ParseResult(<< >>, << >>), error |-> NoError]

Resolved(result) == [state |-> "resolved", result |-> result, error |-> NoError]

Rejected(error) ==
    [state |-> "rejected", result |-> ParseResult(<< >>, << >>), error |-> error]

\* parsePdfFile without the catch around its body
ParsePdfCatch_rethrows(error) == Rejected(error)

\* the catch around the body of parsePdfFile, lines 656-667
ParsePdfCatch(error) ==
    Resolved(ParseResult(<< >>, <<"Failed to parse PDF: " \o error.message>>))

\* parseCsvFile; readError is what file.text() rejects with, NoError when
\* it resolves with the text
parseCsvFile(text, readError) ==
    IF readError = NoError THEN Resolved(ParsedCsv(text))
    ELSE Resolved(ParseResult(<< >>, <<"Failed to read file: " \o readError.message>>))

(***************************************************************************)
(* State                                                                   *)
(***************************************************************************)

VARIABLES
    cache,      \* the CategoryCache persisted in localStorage
    now,        \* Date.now(), in seconds
    lastOp,     \* the cache call made by the last step, with what it returned
    written,    \* key -> time and category of the last cacheCategory call for it
    isOpenRouterConfigured,  \* !!VITE_OPENROUTER_API_KEY, fixed by the build
    call,       \* the categorizeTransactions call in progress or finished
    sheet,      \* the state of the import sheet (CsvImportSheet)
    parse,      \* the parseCsvFile or parsePdfFile call of handleFileSelect
    calc        \* the call of a pure function: its input and what it returned

cacheVars == <<cache, now, lastOp, written>>

catVars == <<isOpenRouterConfigured, call>>

importVars == <<sheet, parse>>

vars == <<cacheVars, catVars, importVars, calc>>

\* how many seconds the clock is followed after the start and after the
\* retention window has passed
MaxSkew == 1

\* the clock reading of the initial state
StartTime == 1

\* descriptions handed to the cache calls: two spellings of one key, and
\* the description of an entry of the full cache
CacheDescriptions == {"Bob", " bob. ", "F1"}

CacheCategories == {"gym", "random"}

\* a cache of n entries written at the times stamp[1], stamp[2], ... in turn
FilledCache(n, stamp) ==
    [i \in 1..n |->
        CachedCategory("f" \o ToString(i), "random", 80, stamp[1 + (i % Len(stamp))])]

\* full caches found in localStorage when the page loads: at the limit or one
\* entry short of it, written just now or over the last two seconds
FullCaches ==
    { FilledCache(n, stamp) : n \in {CACHE_MAX_ENTRIES - 1, CACHE_MAX_ENTRIES},
                              stamp \in {<<StartTime>>, <<StartTime - 1, StartTime>>} }

\* no categorizeTransactions call was made yet
IdleCall ==
    [pc |-> "idle", transactions |-> << >>, toCategorize |-> << >>,
     results |-> << >>, categorizations |-> << >>, out |-> << >>, error |-> "",
     requests |-> 0, cacheAtCall |-> << >>, calledAt |-> 0]

\* no pure function was called
NoCalc == [op |-> "none"]

\* the import sheet as it opens
ClosedSheet ==
    [file |-> "", error |-> "", loading |-> FALSE, transactions |-> << >>,
     categorizing |-> FALSE]

\* a file the user can pick: its name, its lines when it is delimited text,
\* its text lines when it is a PDF
File(name, text, pdfText) == [name |-> name, text |-> text, pdfText |-> pdfText]

\* handleFileSelect has not called a parser yet
IdleParse ==
    [pc |-> "idle", file |-> File("", << >>, << >>), readError |-> NoError,
     chunks |-> << >>, i |-> 0, allTransactions |-> << >>, responses |-> << >>,
     ai |-> AiNotCalled, settlement |-> Pending]

NoOp == [op |-> "none", desc |-> "", category |-> "", result |-> UNDEFINED]

InitCache ==
    /\ cache = << >>
    /\ now = StartTime
    /\ lastOp = NoOp
    /\ written = [k \in {} |-> 0]
    /\ isOpenRouterConfigured = TRUE
    /\ call = IdleCall
    /\ sheet = ClosedSheet
    /\ parse = IdleParse
    /\ calc = NoCalc

InitCacheFull ==
    /\ cache \in FullCaches
    /\ now = StartTime
    /\ lastOp = NoOp
    /\ written = [k \in {} |-> 0]
    /\ isOpenRouterConfigured = TRUE
    /\ call = IdleCall
    /\ sheet = ClosedSheet
    /\ parse = IdleParse
    /\ calc = NoCalc

\* a second passes
TickSecond ==
    /\ (now - StartTime) % expiryTime < MaxSkew
    /\ now' = now + 1
    /\ lastOp' = NoOp
    /\ UNCHANGED <<cache, written, catVars, importVars, calc>>

\* the retention window passes
TickWindow ==
    /\ now < StartTime + expiryTime
    /\ now' = now + expiryTime
    /\ lastOp' = NoOp
    /\ UNCHANGED <<cache, written, catVars, importVars, calc>>

\* a call of cacheCategory(description, category, 0.8)
CachePut ==
    \E d \in CacheDescriptions, c \in CacheCategories :
        /\ cache' = cacheCategory(cache, d, c, 80, now)
        /\ lastOp' = [op |-> "put", desc |-> d, category |-> c, result |-> UNDEFINED]
        /\ written' = [k \in DOMAIN written \cup {normalizeDescription(d)} |->
                          IF k = normalizeDescription(d)
                          THEN [time |-> now, category |-> c]
                          ELSE written[k]]
        /\ UNCHANGED <<now, catVars, importVars, calc>>

\* a call of getCachedCategory(description)
CacheLookup ==
    \E d \in CacheDescriptions :
        /\ cache' = getCachedCategoryStore(cache, d, now)
        /\ lastOp' = [op |-> "get", desc |-> d, category |-> "",
                      result |-> getCachedCategory(cache, d, now)]
        /\ UNCHANGED <<now, written, catVars, importVars, calc>>

NextCache == TickSecond \/ TickWindow \/ CachePut \/ CacheLookup

SpecCache == InitCache /\ [][NextCache]_vars

\* the calls made within a few seconds on a cache that is full
NextCacheFull == TickSecond \/ CachePut \/ CacheLookup

SpecCacheFull == InitCacheFull /\ [][NextCacheFull]_vars

(***************************************************************************)
(* categorizeTransactions as a process: the code up to the fetch is one    *)
(* step, the code after the response has been read is another.  (The two   *)
(* awaits, of fetch and of response.json(), are one suspension: the call   *)
(* touches no state between them.)                                         *)
(***************************************************************************)

\* the longest batch
MaxBatch == 3

\* the longest JSON array the delegate answers with
MaxAnswers == 2

\* a description with a rule, one without that is spelled unlike its cache
\* key, and one without that shares its amount
Requests ==
    { [description |-> "SPAR Market", amount |-> 4550],
      [description |-> " bob. ",      amount |-> 120],
      [description |-> "Zed",         amount |-> 120] }

Batches == UNION {[1..n -> Requests] : n \in 0..MaxBatch}

\* what the delegate puts into an element of its JSON array
AnswerItems ==
    { [index |-> n, category |-> v[1], confidence |-> v[2]] :
        n \in 1..MaxBatch,
        v \in {<<"gym", 70>>, <<"petrol", 0>>, <<"bogus", NoConfidence>>} }

JsonAnswers == UNION {[1..n -> AnswerItems] : n \in 0..MaxAnswers}

\* contents that are not JSON, as their lines
TextAnswers == { <<"I cannot help">>, <<"1. Gym", "2. water or rent">> }

\* the ways the request fails: fetch rejects, the status is not ok, or the
\* parsed JSON is not an array of objects (forEach or cat.index throws)
DelegateErrors == {"NetworkError", "HttpError", "TypeError"}

\* caches found in localStorage when the page loads: none, or an entry that
\* an earlier session wrote
InitialCaches ==
    { << >>, <<CachedCategory("bob", "gym", 80, StartTime - 1)>> }

NewCall(transactions) ==
    [pc             |-> "idle",
     transactions   |-> transactions,
     toCategorize   |-> << >>,
     results        |-> [i \in 1..Len(transactions) |-> Unset],
     categorizations |-> << >>,
     out            |-> << >>,
     error          |-> "",
     requests       |-> 0,
     cacheAtCall    |-> << >>,
     calledAt       |-> 0]

Init ==
    /\ cache \in InitialCaches
    /\ now = StartTime
    /\ lastOp = NoOp
    /\ written = [k \in {} |-> 0]
    /\ isOpenRouterConfigured \in BOOLEAN
    /\ call = IdleCall
    /\ sheet = ClosedSheet
    /\ parse = IdleParse
    /\ calc = NoCalc

\* categorizeTransactions(transactions) up to its first await
CategorizeStart ==
    /\ call.pc = "idle"
    /\ \E transactions \in Batches :
          LET fresh == [NewCall(transactions) EXCEPT !.cacheAtCall = cache,
                                                     !.calledAt = now]
              pre   == PreProcess(1, transactions,
                                  [toCategorize |-> << >>,
                                   results      |-> fresh.results,
                                   cache        |-> cache], now)
          IN  IF ~isOpenRouterConfigured
              THEN /\ call' = [fresh EXCEPT !.pc = "threw", !.error = "NotConfigured"]
                   /\ cache' = cache
              ELSE IF Len(transactions) = 0
              THEN /\ call' = [fresh EXCEPT !.pc = "returned"]
                   /\ cache' = cache
              ELSE IF AllResolved(pre.toCategorize)
              THEN /\ call' = [fresh EXCEPT !.pc = "returned",
                                            !.results = pre.results,
                                            !.out = AssembleResolved(transactions, pre.results)]
                   /\ cache' = pre.cache
              ELSE /\ call' = [fresh EXCEPT !.pc = "awaitFetch",
                                            !.toCategorize = pre.toCategorize,
                                            !.results = pre.results,
                                            !.requests = 1]
                   /\ cache' = pre.cache
    /\ UNCHANGED <<now, lastOp, written, isOpenRouterConfigured, importVars, calc>>

\* the request fails: the catch block rethrows
DelegateFails ==
    /\ call.pc = "awaitFetch"
    /\ \E e \in DelegateErrors :
          call' = [call EXCEPT !.pc = "threw", !.error = e]
    /\ UNCHANGED <<cacheVars, isOpenRouterConfigured, importVars, calc>>

\* the rest of categorizeTransactions once categorizations is known
Complete(categorizations) ==
    /\ call' = [call EXCEPT
                  !.pc = "returned",
                  !.categorizations = categorizations,
                  !.results = MergeResults(call.toCategorize, categorizations, @),
                  !.out = MapCategorizations(call.transactions, categorizations)]
    /\ cache' = CacheCategorizations(1, categorizations, call.toCategorize, cache, now)
    /\ UNCHANGED <<now, lastOp, written, isOpenRouterConfigured, importVars, calc>>

\* the content holds a JSON array
DelegateAnswersJson ==
    /\ call.pc = "awaitFetch"
    /\ \E categorizations \in JsonAnswers : Complete(categorizations)

\* JSON.parse throws on the content: the line scanner stands in
DelegateAnswersText ==
    /\ call.pc = "awaitFetch"
    /\ \E lines \in TextAnswers :
          Complete(fallbackParseCategories(lines, Len(call.transactions)))

Next ==
    \/ TickSecond
    \/ TickWindow
    \/ CategorizeStart
    \/ DelegateFails
    \/ DelegateAnswersJson
    \/ DelegateAnswersText

Spec == Init /\ [][Next]_vars

(***************************************************************************)
(* The import of a file: handleFileSelect with the parser it awaits.       *)
(* The handler runs up to the read of the file, the parser from there to   *)
(* each fetch of extractTransactionsWithAI, and the rest of the parser     *)
(* with the rest of the handler runs in the step that settles the parser.  *)
(***************************************************************************)

\* String.prototype.endsWith
EndsWith(s, suffix) ==
    Len(s) >= Len(suffix) /\ SubSeq(s, Len(s) - Len(suffix) + 1, Len(s)) = suffix

\* Array.prototype.join('\n')
RECURSIVE Join(_)
Join(strings) ==
    IF Len(strings) = 0 THEN ""
    ELSE IF Len(strings) = 1 THEN strings[1]
    ELSE strings[1] \o "\n" \o Join(Tail(strings))

\* the month has no budget and no transaction yet
existingCategories == <<"Other">>

\* the rows handleFileSelect makes of the parsed transactions
InitialTransactions(transactions) ==
    [k \in 1..Len(transactions) |->
        [date |-> transactions[k].date,
         description |-> transactions[k].description,
         amount |-> transactions[k].amount,
         category |-> existingCategories[1],
         selected |-> TRUE]]

\* handleFileSelect from the settling of the parser on (lines 76-110),
\* with handleCategorize up to its first await
AfterParse(settlement, isCsv) ==
    LET kind == IF isCsv THEN "CSV" ELSE "PDF"
        result == settlement.result
    IN  IF settlement.state = "rejected"
        THEN [sheet EXCEPT
                 !.error = "Failed to parse " \o kind \o ": " \o settlement.error.message,
                 !.loading = FALSE]
        ELSE IF Len(result.errors) > 0
        THEN [sheet EXCEPT !.error = Join(result.errors), !.loading = FALSE]
        ELSE IF Len(result.transactions) = 0
        THEN [sheet EXCEPT !.error = "No transactions found in " \o kind \o " file",
                           !.loading = FALSE]
        ELSE [sheet EXCEPT !.transactions = InitialTransactions(result.transactions),
                           !.loading = FALSE,
                           !.categorizing = isOpenRouterConfigured]

Groceries == ParsedTransaction("2024-01-15", "CHECKERS HYPER 123", 250500)

Fuel == ParsedTransaction("2024-01-16", "Zed", 500000)

\* the texts of the model's PDF files: the text of a scanned page, one line
\* without a transaction, a transaction found on two lines, and texts of
\* two and of three chunks
PdfTexts ==
    { <<Line(0, << >>), Line(0, << >>), Line(0, << >>)>>,
      <<Line(40, << >>), Line(0, << >>), Line(0, << >>)>>,
      <<Line(40, <<Groceries>>), Line(40, <<Groceries>>), Line(0, << >>),
        Line(0, << >>)>>,
      <<Line(7000, <<Groceries>>), Line(7000, <<Fuel>>), Line(0, << >>),
        Line(0, << >>)>>,
      <<Line(7000, << >>), Line(7000, <<Fuel>>), Line(7000, << >>),
        Line(0, << >>), Line(0, << >>)>> }

Files ==
    {File("bank.CSV", text, << >>) : text \in CsvTexts}
    \cup {File("statement.pdf", << >>, pdfText) : pdfText \in PdfTexts}
    \cup {File("notes.txt", << >>, << >>)}

\* what the read of a file can reject with; NoError: it does not
ReadErrors(isCsv) ==
    IF isCsv
    THEN {NoError, Error("NotReadableError", "The requested file could not be read")}
    ELSE {NoError, Error("NotReadableError", "The requested file could not be read"),
          Error("InvalidPDFException", "Invalid PDF structure.")}

\* the item lists of the delegate's answers
ItemLists ==
    { << >>,
      <<RawItem("2024-01-15", " CHECKERS HYPER 123 ", 250500, TRUE)>>,
      <<RawItem("31/12/2024", "Zed", -500000, TRUE),
        RawItem("", "", 0, FALSE),
        RawItem("2024-01-15", "CHECKERS HYPER 123", 250505, TRUE)>>,
      <<RawItem("2024-01-15", "CHECKERS HYPER 123", 250500, TRUE), NullItem>>,
      <<NonStringDescription(RawItem("2024-01-16", "", 120000, TRUE)),
        RawItem("2024-01-16", "Zed", 500000, TRUE)>> }

\* what the delegate can do with the request for a chunk
DelegateResponses ==
    { FetchRejects("AbortError", "The user aborted a request."),
      FetchRejects("TypeError", "Failed to fetch"),
      FetchResolves(429, "Too Many Requests",
          Body(TRUE, ApiError(429, "Rate limit exceeded"), FALSE, FALSE, << >>)),
      FetchResolves(200, "OK",
          Body(TRUE, ApiError(0, "Provider returned error"), FALSE, FALSE, << >>)),
      FetchResolves(500, "Internal Server Error",
          Body(TRUE, NoApiError, FALSE, FALSE, << >>)),
      FetchResolves(502, "Bad Gateway",
          Body(FALSE, NoApiError, FALSE, FALSE, << >>)),
      FetchResolves(200, "OK", Body(TRUE, NoApiError, FALSE, FALSE, << >>)),
      FetchResolves(200, "OK", Body(TRUE, NoApiError, TRUE, FALSE, << >>)) }
    \cup { FetchResolves(200, "OK", Body(TRUE, NoApiError, TRUE, TRUE, items)) :
              items \in ItemLists }

InitImport ==
    /\ cache = << >>
    /\ now = StartTime
    /\ lastOp = NoOp
    /\ written = [k \in {} |-> 0]
    /\ isOpenRouterConfigured \in BOOLEAN
    /\ call = IdleCall
    /\ sheet = ClosedSheet
    /\ parse = IdleParse
    /\ calc = NoCalc

IsCsv(file) == EndsWith(toLowerCase(file.name), ".csv")

IsPdf(file) == EndsWith(toLowerCase(file.name), ".pdf")

\* handleFileSelect up to the await of the read of the file
HandleFileSelect ==
    /\ parse.pc = "idle"
    /\ \E selectedFile \in Files :
        IF ~IsCsv(selectedFile) /\ ~IsPdf(selectedFile)
        THEN /\ sheet' = [sheet EXCEPT !.error = "Please select a CSV or PDF file"]
             /\ parse' = parse
        ELSE /\ sheet' = [sheet EXCEPT !.file = selectedFile.name, !.error = "",
                                       !.loading = TRUE]
             /\ parse' = [parse EXCEPT !.pc = "reading", !.file = selectedFile]
    /\ UNCHANGED <<cacheVars, catVars, calc>>

\* the parser settles, and handleFileSelect runs on
Settle(settlement, readError, ai, responses) ==
    /\ parse' = [parse EXCEPT !.pc = "settled", !.settlement = settlement,
                              !.readError = readError, !.ai = ai,
                              !.responses = responses]
    /\ sheet' = AfterParse(settlement, IsCsv(parse.file))

\* file.text() or extractTextFromPdf settles: parseCsvFile runs to its end,
\* parsePdfFile(file, isOpenRouterConfigured) to its end or to the fetch of
\* the first chunk
FileRead ==
    /\ parse.pc = "reading"
    /\ \E readError \in ReadErrors(IsCsv(parse.file)) :
        LET pdfText == parse.file.pdfText
            useAI == isOpenRouterConfigured
        IN  IF IsCsv(parse.file)
            THEN Settle(parseCsvFile(parse.file.text, readError), readError,
                        AiNotCalled, << >>)
            ELSE IF readError # NoError
            THEN Settle(ParsePdfCatch(readError), readError, AiNotCalled, << >>)
            ELSE IF IsBlankText(pdfText)
            THEN Settle(Resolved(ParseResult(<< >>,
                     <<"Could not extract text from PDF. The PDF may be image-based or corrupted.">>)),
                     NoError, AiNotCalled, << >>)
            ELSE IF useAI /\ isOpenRouterConfigured
            THEN /\ parse' = [parse EXCEPT !.pc = "fetching",
                                           !.chunks = SplitChunks(pdfText),
                                           !.i = 1, !.ai = AiRunning]
                 /\ sheet' = sheet
            ELSE Settle(Resolved(PatternFallback(pdfText,
                     IF useAI
                     THEN <<"OpenRouter API key not configured. AI extraction unavailable. Using pattern matching...">>
                     ELSE << >>)),
                     NoError, AiNotCalled, << >>)
    /\ UNCHANGED <<cacheVars, catVars, calc>>

\* the fetch of chunk i settles: the chunk loop runs to the next fetch or
\* extractTransactionsWithAI ends and parsePdfFile with it
DelegateResponds ==
    /\ parse.pc = "fetching"
    /\ \E response \in DelegateResponses :
        LET i == parse.i
            outcome == ProcessChunk(response)
            thrown == IF outcome.error = NoError THEN NoError
                      ELSE ChunkCatch(i, outcome.error)
            allTransactions == parse.allTransactions \o outcome.transactions
            responses == Append(parse.responses, response)
        IN  IF thrown # NoError
            THEN Settle(Resolved(AfterAI(parse.file.pdfText, AiThrew(thrown))),
                        NoError, AiThrew(thrown), responses)
            ELSE IF i < Len(parse.chunks)
            THEN /\ parse' = [parse EXCEPT !.i = i + 1,
                                           !.allTransactions = allTransactions,
                                           !.responses = responses]
                 /\ sheet' = sheet
            ELSE Settle(Resolved(AfterAI(parse.file.pdfText,
                                         AiReturned(allTransactions))),
                        NoError, AiReturned(allTransactions), responses)
    /\ UNCHANGED <<cacheVars, catVars, calc>>

NextImport == HandleFileSelect \/ FileRead \/ DelegateResponds

SpecImport == InitImport /\ [][NextImport]_vars

(***************************************************************************)
(* The duplicate filters as steps: a list is filtered, and the result is   *)
(* filtered again.                                                         *)
(***************************************************************************)

\* the longest list handed to a filter
MaxList == 3

\* the sequences over S of length at most n
SeqsUpTo(S, n) == UNION {[1..k -> S] : k \in 0..n}

\* transactions of one day under three descriptions, two of which share
\* their first ten characters, with amounts half a cent apart, and a
\* transaction of another day
DedupTransactions ==
    { ParsedTransaction("2024-01-15", description, amount) :
          description \in {"CHECKERS HYPER 123", "CHECKERS HYPERMARKET", "Zed"},
          amount \in {250500, 250506, 250512} }
    \cup {ParsedTransaction("2024-01-16", "Zed", 250500)}

\* the filter of a rule
Dedup(rule, transactions) ==
    IF rule = "located" THEN DedupLocated(transactions)
    ELSE DedupExtracted(transactions)

InitDedup ==
    /\ cache = << >>
    /\ now = StartTime
    /\ lastOp = NoOp
    /\ written = [k \in {} |-> 0]
    /\ isOpenRouterConfigured = TRUE
    /\ call = IdleCall
    /\ sheet = ClosedSheet
    /\ parse = IdleParse
    /\ \E rule \in {"located", "extracted"} :
       \E input \in SeqsUpTo(DedupTransactions, MaxList) :
          calc = [op |-> "dedup", rule |-> rule, input |-> input, passes |-> 0,
                  once |-> << >>, twice |-> << >>]

\* the filter runs on the list, then on its own output
Deduplicate ==
    /\ calc.op = "dedup"
    /\ calc.passes < 2
    /\ calc' = IF calc.passes = 0
               THEN [calc EXCEPT !.passes = 1, !.once = Dedup(calc.rule, calc.input)]
               ELSE [calc EXCEPT !.passes = 2, !.twice = Dedup(calc.rule, calc.once)]
    /\ UNCHANGED <<cacheVars, catVars, importVars>>

NextDedup == Deduplicate

SpecDedup == InitDedup /\ [][NextDedup]_vars

(***************************************************************************)
(* parseCsv as a step                                                      *)
(***************************************************************************)

\* the most data lines of a text
MaxRows == 2

\* header lines: the three columns under their plain names, quoted and
\* under other names, one without each of the three, one that names none,
\* and one with an unnamed column
CsvHeaders ==
    { "Date,Description,Amount", "\"Txn Date\", Details ,Debit", "Date,Amount",
      "Description,Amount", "Date,Description", "Name,Total", "Date,,Amount" }

\* data lines: a quoted comma and a currency sign, a zero amount, a blank
\* row, a line of spaces, a negative amount with a thousands space, an
\* amount that is no number, and a row without description
CsvRows ==
    { "15/01/2024,\"Shop, A\",R12.50", "2024-01-16,Zed,0", ",,", "   ",
      "n/a,Bob,-1 200.5", "2024-01-16,Zed,abc", "2024-01-17,,5" }

CsvInputs ==
    { << >> }
    \cup { <<header>> \o rows : header \in CsvHeaders,
                                rows \in SeqsUpTo(CsvRows, MaxRows) }

InitCsv ==
    /\ cache = << >>
    /\ now = StartTime
    /\ lastOp = NoOp
    /\ written = [k \in {} |-> 0]
    /\ isOpenRouterConfigured = TRUE
    /\ call = IdleCall
    /\ sheet = ClosedSheet
    /\ parse = IdleParse
    /\ \E csvContent \in CsvInputs :
          calc = [op |-> "parseCsv", csvContent |-> csvContent, done |-> FALSE,
                  result |-> ParseResult(<< >>, << >>)]

ParseCsvText ==
    /\ calc.op = "parseCsv"
    /\ ~calc.done
    /\ calc' = [calc EXCEPT !.done = TRUE, !.result = parseCsv(calc.csvContent)]
    /\ UNCHANGED <<cacheVars, catVars, importVars>>

NextCsv == ParseCsvText

SpecCsv == InitCsv /\ [][NextCsv]_vars

(***************************************************************************)
(* Properties of the cache                                                 *)
(***************************************************************************)

Entries(c) == {c[i] : i \in DOMAIN c}

\* C6: a lookup of an entry written at time T returns the stored category
\* while now - T is at most 30 days and leaves the cache alone; later than
\* that it returns a miss and removes exactly that entry from the cache.
C6_ExpiredEntryIsNeverAHit ==
    [][ (lastOp'.op = "get" /\ HasKey(cache, normalizeDescription(lastOp'.desc))) =>
          LET key == normalizeDescription(lastOp'.desc)
              e   == CacheGet(cache, key)
              T   == IF key \in DOMAIN written THEN written[key].time ELSE e.timestamp
              cat == IF key \in DOMAIN written THEN written[key].category ELSE e.category
          IN  IF now - T > expiryTime
              THEN /\ lastOp'.result = UNDEFINED
                   /\ ~HasKey(cache', key)
                   /\ Entries(cache') = Entries(cache) \ {e}
                   /\ Len(cache') = Len(cache) - 1
              ELSE /\ lastOp'.result = cat
                   /\ cache' = cache ]_vars

\* C6 witness: an entry written in this run was looked up after its 30 days,
\* the lookup missed, the entry is gone and another entry is still there
C6_Witness ==
    /\ lastOp.op = "get"
    /\ lastOp.result = UNDEFINED
    /\ normalizeDescription(lastOp.desc) \in DOMAIN written
    /\ now - written[normalizeDescription(lastOp.desc)].time > expiryTime
    /\ ~HasKey(cache, normalizeDescription(lastOp.desc))
    /\ Len(cache) > 0

\* C7: the cache never holds more than 1000 entries, and the entries a
\* cacheCategory call removes are the oldest: no entry it keeps has an older
\* timestamp than one it removes.
C7_CacheBoundedOldestEvicted ==
    [][ /\ Len(cache') <= CACHE_MAX_ENTRIES
        /\ lastOp'.op = "put" =>
             \* (each set is bound by a quantifier so that it is built once)
             \A key \in {normalizeDescription(lastOp'.desc)} :
             \A keptKeys \in {CacheKeys(cache')} :
             \A kept \in {{cache'[i].timestamp : i \in DOMAIN cache'}} :
                LET \* timestamps of what the call had in hand and did not keep
                    removed == {cache[j].timestamp :
                                   j \in {i \in DOMAIN cache :
                                            cache[i].key # key /\ cache[i].key \notin keptKeys}}
                               \cup (IF key \in keptKeys THEN {} ELSE {now})
                IN  \A r \in removed : \A k \in kept : k >= r ]_vars

\* C7 witness: a write found the cache full and an entry of the initial
\* cache was evicted for it
C7_Witness ==
    /\ lastOp.op = "put"
    /\ Len(cache) = CACHE_MAX_ENTRIES
    /\ LET keys == CacheKeys(cache)
       IN  /\ normalizeDescription(lastOp.desc) \in keys
           /\ \E n \in 1..CACHE_MAX_ENTRIES : ("f" \o ToString(n)) \notin keys

(***************************************************************************)
(* Properties of categorizeTransactions                                    *)
(***************************************************************************)

Batch == call.transactions

\* the tier that resolves item i: what the rules say of its description and
\* what the cache held for it when the call was made
RuleCategoryOf(i) == getRuleBasedCategory(Batch[i].description)

CachedCategoryOf(i) ==
    getCachedCategory(call.cacheAtCall, Batch[i].description, call.calledAt)

TierOf(i) ==
    IF Truthy(RuleCategoryOf(i)) THEN "rule"
    ELSE IF Truthy(CachedCategoryOf(i)) THEN "cache"
    ELSE "delegate"

\* the 1-based number item i has in the delegate request
BackReference(i) == Cardinality({k \in 1..i : TierOf(k) = "delegate"})

\* the delegate's answer for item i
AnswerFor(i) == FindByIndex(call.categorizations, BackReference(i))

\* C1: a call that returns gives one result per item, in order, with the
\* item's description and amount and the category of the item's own tier: the
\* rule category, else the cached category, else the (valid) category the
\* delegate returned under the item's back-reference index.
C1_ResultsFollowOwnTier ==
    call.pc = "returned" =>
        /\ Len(call.out) = Len(Batch)
        /\ \A i \in 1..Len(Batch) :
              /\ call.out[i].description = Batch[i].description
              /\ call.out[i].amount = Batch[i].amount
              /\ TierOf(i) = "rule" => call.out[i].category = RuleCategoryOf(i)
              /\ TierOf(i) = "cache" => call.out[i].category = CachedCategoryOf(i)
              /\ (TierOf(i) = "delegate" /\ IsValidCategory(AnswerFor(i).category))
                    => call.out[i].category = AnswerFor(i).category

\* C2: in a call that returns, every item whose description matches a rule
\* has that rule's category and confidence 0.95.
C2_RuleItemsKeepRuleCategory ==
    call.pc = "returned" =>
        \A i \in 1..Len(Batch) :
            Truthy(RuleCategoryOf(i)) =>
                /\ call.out[i].category = RuleCategoryOf(i)
                /\ call.out[i].confidence = 95

\* C3: the call fails with the not-configured error only if some item reaches
\* the delegate tier (stated for the batches that have an item).
C3_NotConfiguredOnlyAtDelegateTier ==
    (call.pc = "threw" /\ call.error = "NotConfigured" /\ Len(Batch) > 0) =>
        \E i \in 1..Len(Batch) : TierOf(i) = "delegate"

\* C4: unconfigured, a batch of a rule item, a cache hit and a delegate item
\* raises nothing: items 1 and 2 get their category at 0.95 and 0.9, item 3
\* gets 'random' at no more than 0.5.
C4_UnconfiguredBatchDegrades ==
    ( /\ ~isOpenRouterConfigured
      /\ call.pc \in {"returned", "threw"}
      /\ Len(Batch) = 3
      /\ TierOf(1) = "rule" /\ TierOf(2) = "cache" /\ TierOf(3) = "delegate" ) =>
        /\ call.pc = "returned"
        /\ Len(call.out) = 3
        /\ call.out[1].category = RuleCategoryOf(1) /\ call.out[1].confidence = 95
        /\ call.out[2].category = CachedCategoryOf(2) /\ call.out[2].confidence = 90
        /\ call.out[3].category = "random"
        /\ call.out[3].confidence # NoConfidence /\ call.out[3].confidence <= 50

EveryItemInTiers12 ==
    /\ call.pc # "idle"
    /\ Len(Batch) > 0
    /\ \A i \in 1..Len(Batch) : TierOf(i) # "delegate"

\* C5: a batch whose every item is resolved by a rule or by the cache issues
\* no delegate request, and where the tiers ran (the key is configured) the
\* call returns the rule and cache resolutions.
C5_NoRequestWhenAllResolved ==
    EveryItemInTiers12 =>
        /\ call.requests = 0
        /\ call.pc # "awaitFetch"
        /\ isOpenRouterConfigured =>
              /\ call.pc = "returned"
              /\ Len(call.out) = Len(Batch)
              /\ \A i \in 1..Len(Batch) :
                    /\ call.out[i].description = Batch[i].description
                    /\ call.out[i].amount = Batch[i].amount
                    /\ TierOf(i) = "rule" =>
                          /\ call.out[i].category = RuleCategoryOf(i)
                          /\ call.out[i].confidence = 95
                    /\ TierOf(i) = "cache" =>
                          /\ call.out[i].category = CachedCategoryOf(i)
                          /\ call.out[i].confidence = 90

\* C5 witness: a returned batch holding a rule item and a cache hit
C5_Witness ==
    /\ EveryItemInTiers12
    /\ call.pc = "returned"
    /\ \E i, j \in 1..Len(Batch) : TierOf(i) = "rule" /\ TierOf(j) = "cache"

(***************************************************************************)
(* Properties of the file import                                           *)
(***************************************************************************)

\* the fetch of chunk k was aborted by the 90 second timer
TimedOut(k) ==
    parse.responses[k].kind = "rejected" /\ parse.responses[k].name = "AbortError"

\* chunk k was answered and its answer was processed without a throw
ChunkSucceeded(k) == ProcessChunk(parse.responses[k]).error = NoError

\* the validated transactions of the chunks 1..k that succeeded
RECURSIVE SucceededTransactions(_)
SucceededTransactions(k) ==
    IF k = 0 THEN << >>
    ELSE SucceededTransactions(k - 1)
         \o ProcessChunk(parse.responses[k]).transactions

AiEnded == parse.ai.state \in {"returned", "threw"}

\* C8: a timeout on the first chunk makes extractTransactionsWithAI fail
\* with the timeout error; a timeout on a later chunk, after the chunks
\* before it succeeded, throws nothing and the call returns the
\* transactions of the chunks that succeeded.
C8_TimeoutFatalOnlyOnFirstChunk ==
    AiEnded =>
        /\ TimedOut(1) =>
              /\ parse.ai.state = "threw"
              /\ Includes(parse.ai.error.message, "timed out")
        /\ (\E k \in 2..Len(parse.responses) :
               TimedOut(k) /\ \A j \in 1..(k - 1) : ChunkSucceeded(j)) =>
              /\ parse.ai.state = "returned"
              /\ parse.ai.transactions =
                    FirstOccurrences(SucceededTransactions(Len(parse.responses)),
                                     SameExtracted)

\* extractTransactionsWithAI failed with the rate limit in a text where the
\* pattern matching finds a transaction
RateLimitedWithLocated ==
    /\ parse.pc = "settled"
    /\ parse.ai.state = "threw"
    /\ parse.ai.error.message = "RATE_LIMIT"
    /\ Len(extractTransactionsPatternMatching(parse.file.pdfText)) > 0

\* C9: when the delegate is rate limited and the pattern matching finds a
\* transaction in the text, the import ends with the located transactions
\* in the list of the sheet and without an error that discards them.
C9_RateLimitShowsLocated ==
    RateLimitedWithLocated =>
        /\ sheet.transactions =
              InitialTransactions(
                  extractTransactionsPatternMatching(parse.file.pdfText))
        /\ sheet.error = ""

\* C10: the promise of parseCsvFile and of parsePdfFile never rejects;
\* whatever fails in the read of the file, in the text extraction, in the
\* delegate or in the pattern matching, the promise resolves to a
\* ParseResult.
C10_ParsersNeverReject ==
    /\ parse.settlement.state # "rejected"
    /\ parse.pc = "settled" =>
          /\ parse.settlement.state = "resolved"
          /\ DOMAIN parse.settlement.result = {"transactions", "errors"}
          /\ (parse.readError # NoError \/ parse.ai.state = "threw") =>
                Len(parse.settlement.result.errors) > 0

\* C10 witness: the text extraction of a PDF failed and parsePdfFile
\* resolved with the failure in the errors of its result
C10_Witness ==
    /\ parse.pc = "settled"
    /\ IsPdf(parse.file)
    /\ parse.readError # NoError
    /\ parse.settlement = Resolved(ParseResult(<< >>,
           <<"Failed to parse PDF: " \o parse.readError.message>>))

(***************************************************************************)
(* Properties of the duplicate filters                                     *)
(***************************************************************************)

\* C11: both duplicate filters are idempotent: the filter applied to its
\* own output returns that output.
C11_DedupIdempotent ==
    (calc.op = "dedup" /\ calc.passes = 2) => calc.twice = calc.once

\* C11 witness: of a list of three the locator's filter dropped the second,
\* which shares the first ten characters and, within the tolerance, the
\* amount of the first, and the second pass returned the two it kept
C11_Witness ==
    /\ calc.op = "dedup"
    /\ calc.rule = "located"
    /\ calc.passes = 2
    /\ Len(calc.input) = 3
    /\ calc.once = <<calc.input[1], calc.input[3]>>
    /\ calc.input[2].description # calc.input[1].description
    /\ calc.input[2].amount # calc.input[1].amount
    /\ calc.twice = calc.once

(***************************************************************************)
(* Properties of parseCsv                                                  *)
(***************************************************************************)

CsvParsed == calc.op = "parseCsv" /\ calc.done

\* the lines parseCsv keeps: the header and the data rows
CsvLines == SelectSeq(calc.csvContent, LAMBDA line : Len(trim(line)) > 0)

CsvHeader ==
    LET raw == SplitComma(CsvLines[1], "")
    IN  [k \in 1..Len(raw) |-> StripQuotes(trim(raw[k]))]

Roles == {"Date", "Description", "Amount"}

RoleIndex(role) ==
    findColumnIndex(CsvHeader,
        CASE role = "Date" -> dateNames
          [] role = "Description" -> descriptionNames
          [] role = "Amount" -> amountNames)

\* the roles the header does not resolve
Unresolved == {role \in Roles : RoleIndex(role) = 0}

StartsWith(s, prefix) ==
    Len(s) >= Len(prefix) /\ SubSeq(s, 1, Len(prefix)) = prefix

\* the error of a role that was not resolved
IsRoleError(error, role) == StartsWith(error, "Could not find " \o role \o " column")

\* C12: when the header does not resolve the date, the description or the
\* amount column, parseCsv returns no transaction and exactly one error for
\* each role it did not resolve; a result that holds such an error holds no
\* transaction.
C12_UnresolvedColumnsAbort ==
    CsvParsed =>
        /\ (Len(CsvLines) >= 2 /\ Unresolved # {}) =>
              /\ calc.result.transactions = << >>
              /\ Len(calc.result.errors) = Cardinality(Unresolved)
              /\ \A role \in Unresolved :
                    Cardinality({k \in 1..Len(calc.result.errors) :
                                    IsRoleError(calc.result.errors[k], role)}) = 1
        /\ (\E k \in 1..Len(calc.result.errors) : \E role \in Roles :
               IsRoleError(calc.result.errors[k], role)) =>
              calc.result.transactions = << >>

\* C12 witness: no role is resolved, the text has a row with a description
\* and an amount, and the result is the three errors
C12_Witness ==
    /\ CsvParsed
    /\ Len(CsvLines) = 2
    /\ CsvLines[2] = "n/a,Bob,-1 200.5"
    /\ Unresolved = Roles
    /\ Len(calc.result.errors) = 3
    /\ calc.result.transactions = << >>

HeaderResolves == CsvParsed /\ Len(CsvLines) >= 1 /\ Unresolved = {}

RowValues(k) == SplitRow(CsvLines[k], "", FALSE)

RowDescription(k) == trim(ValueAt(RowValues(k), RoleIndex("Description")))

RowAmountStr(k) == ValueAt(RowValues(k), RoleIndex("Amount"))

\* row k is not blank and its parsed amount is not zero
RowCounts(k) ==
    /\ ~(RowDescription(k) = "" /\ RowAmountStr(k) = "")
    /\ parseAmount(RowAmountStr(k)) # 0

\* the transactions of the rows from row k on that count, in row order
RECURSIVE ExpectedFrom(_)
ExpectedFrom(k) ==
    IF k > Len(CsvLines) THEN << >>
    ELSE (IF RowCounts(k)
          THEN <<ParsedTransaction(parseDate(ValueAt(RowValues(k), RoleIndex("Date"))),
                                   RowDescription(k),
                                   parseAmount(RowAmountStr(k)))>>
          ELSE << >>)
         \o ExpectedFrom(k + 1)

\* C13 as stated: when the header resolves the three columns, parseCsv
\* returns no error and one transaction for each row that is not blank and
\* whose amount is not zero, in row order.
C13_OneTransactionPerRowNoErrors ==
    HeaderResolves =>
        /\ calc.result.errors = << >>
        /\ calc.result.transactions = ExpectedFrom(2)

\* C13 amended: when the header resolves the three columns, parseCsv
\* returns one transaction for each row that is not blank and whose amount
\* is not zero, in row order and without merging equal rows; it returns no
\* error when a row counts, and one error and no other when none does.
C13_OneTransactionPerRow ==
    HeaderResolves =>
        /\ calc.result.transactions = ExpectedFrom(2)
        /\ Len(ExpectedFrom(2)) > 0 => calc.result.errors = << >>
        /\ Len(ExpectedFrom(2)) = 0 =>
              calc.result.errors =
                  IF Len(CsvLines) < 2
                  THEN <<"CSV file must have at least a header row and one data row">>
                  ELSE <<"No valid transactions found in CSV file">>

\* C13 witness: two equal rows that count, and two equal transactions
C13_Witness ==
    /\ HeaderResolves
    /\ Len(CsvLines) = 3
    /\ CsvLines[2] = CsvLines[3]
    /\ RowCounts(2)
    /\ Len(calc.result.transactions) = 2
    /\ calc.result.transactions[1] = calc.result.transactions[2]
    /\ calc.result.errors = << >>

(***************************************************************************)
(* The amount of an emitted transaction                                    *)
(***************************************************************************)

Extractors == {"parseCsv", "extractTransactionsWithAI",
               "extractTransactionsPatternMatching"}

\* the amount texts of a row, of a delegate item and of an amount match
AmountTexts ==
    { "250.50", "-250.50", "R1,234.56", "-R500.00", "R-500.00", "$5", "+7",
      "1 200.5", " 12 ", "12abc", "0", "0.00", "-0", "R0", "0.01", "0.011",
      "-0.011", "999999.99", "1000000", "abc", "", "-", ".5", "R" }

\* what an extractor emits for one amount text
EmittedFor(extractor, amountText) ==
    CASE extractor = "parseCsv" ->
            parseCsv(<<"Date,Description,Amount",
                       "2024-01-15,Shop,\"" \o amountText \o "\"">>).transactions
      [] extractor = "extractTransactionsWithAI" ->
            LET amount == parseFloat(amountText)
            IN  ValidTransactions(<<RawItem("2024-01-15", "Shop", amount.value,
                                            ~amount.nan)>>)
      [] extractor = "extractTransactionsPatternMatching" ->
            LET amount == LocatedAmount(amountText)
            IN  [k \in 1..Len(amount) |->
                    ParsedTransaction("2024-01-15", "Shop", amount[k])]

InitAmount ==
    /\ cache = << >>
    /\ now = StartTime
    /\ lastOp = NoOp
    /\ written = [k \in {} |-> 0]
    /\ isOpenRouterConfigured = TRUE
    /\ call = IdleCall
    /\ sheet = ClosedSheet
    /\ parse = IdleParse
    /\ \E extractor \in Extractors, amountText \in AmountTexts :
          calc = [op |-> "amount", extractor |-> extractor,
                  amountText |-> amountText, done |-> FALSE,
                  emitted |-> << >>]

Emit ==
    /\ calc.op = "amount"
    /\ ~calc.done
    /\ calc' = [calc EXCEPT !.done = TRUE,
                            !.emitted = EmittedFor(calc.extractor, calc.amountText)]
    /\ UNCHANGED <<cacheVars, catVars, importVars>>

NextAmount == Emit

SpecAmount == InitAmount /\ [][NextAmount]_vars

\* the number an extractor reads in an amount text: parseCsv and the pattern
\* matching strip the currency marks first, the delegate's items do not
AmountRead ==
    IF calc.extractor = "extractTransactionsWithAI"
    THEN parseFloat(calc.amountText)
    ELSE parseFloat(StripCurrency(calc.amountText))

\* C14: every transaction an extractor emits has an amount greater than 0:
\* it is the magnitude of the number read, and a text that reads as zero or
\* as no number emits nothing.
C14_EmittedAmountPositive ==
    (calc.op = "amount" /\ calc.done) =>
        /\ \A k \in 1..Len(calc.emitted) :
              /\ calc.emitted[k].amount > 0
              /\ calc.emitted[k].amount = Abs(AmountRead.value)
        /\ (AmountRead.nan \/ AmountRead.value = 0) => calc.emitted = << >>

\* C14 witness: a row with a negative amount is emitted with its magnitude
C14_Witness ==
    /\ calc.op = "amount"
    /\ calc.done
    /\ calc.extractor = "parseCsv"
    /\ calc.amountText = "-R500.00"
    /\ Len(calc.emitted) = 1
    /\ calc.emitted[1].amount = 500000

(***************************************************************************)
(* Two categorizeTransactions calls in flight at once (two imports).  The  *)
(* page has one thread: a call runs from its start to its await and from   *)
(* the response to its end without interruption, and the calls interleave  *)
(* at the await.  calc.writes lists the cacheCategory calls in the order   *)
(* they were made, calc.events the steps of the calls.                     *)
(***************************************************************************)

\* the batches of the two imports
ConcurrentBatches ==
    { <<[description |-> " bob. ", amount |-> 120],
        [description |-> "Zed", amount |-> 120]>>,
      <<[description |-> "Zed", amount |-> 120],
        [description |-> "SPAR Market", amount |-> 4550]>>,
      <<[description |-> " bob. ", amount |-> 120]>>,
      <<[description |-> "SPAR Market", amount |-> 4550],
        [description |-> " bob. ", amount |-> 120]>> }

\* the JSON arrays the delegate answers with
ConcurrentCategorizations ==
    { << >>,
      <<[index |-> 1, category |-> "gym", confidence |-> 70]>>,
      <<[index |-> 1, category |-> "petrol", confidence |-> 0],
        [index |-> 2, category |-> "gym", confidence |-> 70]>>,
      <<[index |-> 2, category |-> "bogus", confidence |-> NoConfidence],
        [index |-> 1, category |-> "rent", confidence |-> 60]>>,
      <<[index |-> 1, category |-> "water", confidence |-> 90],
        [index |-> 1, category |-> "rent", confidence |-> 60]>> }

\* cacheCategory working on the object the call saw before its await
ReadStore_beforeAwait(stored, seen) == seen

\* localStorage.getItem(CACHE_KEY) of cacheCategory: the object stored now,
\* whatever the call saw in the store before its await
ReadStore(stored, seen) == stored

\* the cacheCategory calls of the loop over transactions, in order
RuleWrites(transactions, at) ==
    LET ruled == SelectSeq(transactions,
                     LAMBDA t : Truthy(getRuleBasedCategory(t.description)))
    IN  [k \in 1..Len(ruled) |->
            CachedCategory(normalizeDescription(ruled[k].description),
                           getRuleBasedCategory(ruled[k].description), 95, at)]

\* the cacheCategory calls of categorizations.forEach, in order
AnswerWrites(categorizations, toCategorize, at) ==
    LET named == SelectSeq(categorizations,
                     LAMBDA cat : cat.index \in DOMAIN toCategorize)
    IN  [k \in 1..Len(named) |->
            CachedCategory(
                normalizeDescription(toCategorize[named[k].index].transaction.description),
                named[k].category,
                IF named[k].confidence \in {NoConfidence, 0} THEN 80
                ELSE named[k].confidence,
                at)]

Event(b, step) == [b |-> b, step |-> step]

InitConcurrent ==
    /\ cache \in InitialCaches
    /\ now = StartTime
    /\ lastOp = NoOp
    /\ written = [k \in {} |-> 0]
    /\ isOpenRouterConfigured = TRUE
    /\ call = IdleCall
    /\ sheet = ClosedSheet
    /\ parse = IdleParse
    /\ \E first \in ConcurrentBatches, second \in ConcurrentBatches :
          calc = [op      |-> "concurrent",
                  calls   |-> <<NewCall(first), NewCall(second)>>,
                  seen    |-> <<cache, cache>>,
                  initial |-> cache,
                  writes  |-> << >>,
                  events  |-> << >>]

\* call b up to its await
ConcurrentStart(b) ==
    /\ calc.op = "concurrent"
    /\ calc.calls[b].pc = "idle"
    /\ LET c   == calc.calls[b]
           pre == PreProcess(1, c.transactions,
                             [toCategorize |-> << >>,
                              results      |-> c.results,
                              cache        |-> cache], now)
       IN  /\ cache' = pre.cache
           /\ calc' = [calc EXCEPT
                 !.calls[b] =
                     IF AllResolved(pre.toCategorize)
                     THEN [c EXCEPT !.pc = "returned",
                                    !.results = pre.results,
                                    !.out = AssembleResolved(c.transactions, pre.results),
                                    !.cacheAtCall = cache,
                                    !.calledAt = now]
                     ELSE [c EXCEPT !.pc = "awaitFetch",
                                    !.toCategorize = pre.toCategorize,
                                    !.results = pre.results,
                                    !.requests = 1,
                                    !.cacheAtCall = cache,
                                    !.calledAt = now],
                 !.seen[b] = pre.cache,
                 !.writes = @ \o RuleWrites(c.transactions, now),
                 !.events = Append(@, Event(b, "start"))]
    /\ UNCHANGED <<now, lastOp, written, catVars, importVars>>

\* the request of call b fails
ConcurrentFails(b) ==
    /\ calc.op = "concurrent"
    /\ calc.calls[b].pc = "awaitFetch"
    /\ \E e \in DelegateErrors :
          calc' = [calc EXCEPT !.calls[b].pc = "threw",
                               !.calls[b].error = e,
                               !.events = Append(@, Event(b, "end"))]
    /\ UNCHANGED <<cacheVars, catVars, importVars>>

\* call b from the response to its return
ConcurrentAnswers(b) ==
    /\ calc.op = "concurrent"
    /\ calc.calls[b].pc = "awaitFetch"
    /\ \E categorizations \in ConcurrentCategorizations :
          LET c == calc.calls[b]
          IN  /\ cache' = CacheCategorizations(1, categorizations, c.toCategorize,
                                               ReadStore(cache, calc.seen[b]), now)
              /\ calc' = [calc EXCEPT
                    !.calls[b] =
                        [c EXCEPT
                           !.pc = "returned",
                           !.categorizations = categorizations,
                           !.results = MergeResults(c.toCategorize, categorizations, @),
                           !.out = MapCategorizations(c.transactions, categorizations)],
                    !.writes = @ \o AnswerWrites(categorizations, c.toCategorize, now),
                    !.events = Append(@, Event(b, "end"))]
    /\ UNCHANGED <<now, lastOp, written, catVars, importVars>>

NextConcurrent ==
    \/ TickSecond
    \/ \E b \in 1..2 : ConcurrentStart(b)
    \/ \E b \in 1..2 : ConcurrentFails(b)
    \/ \E b \in 1..2 : ConcurrentAnswers(b)

SpecConcurrent == InitConcurrent /\ [][NextConcurrent]_vars

WrittenKeys == {calc.writes[k].key : k \in DOMAIN calc.writes}

\* the last cacheCategory call made for a key
LastWrite(key) ==
    LET ks == {k \in DOMAIN calc.writes : calc.writes[k].key = key}
    IN  calc.writes[CHOOSE k \in ks : \A j \in ks : j <= k]

\* C15: with two calls interleaved at their awaits, the cache holds for
\* every key written by either call the entry of the last write to that
\* key, the entries that were there before and were not written are as they
\* were, and the cache holds nothing else and no key twice.
C15_ConcurrentWritesKept ==
    calc.op = "concurrent" =>
        /\ \A key \in WrittenKeys :
              HasKey(cache, key) /\ CacheGet(cache, key) = LastWrite(key)
        /\ \A i \in DOMAIN calc.initial :
              calc.initial[i].key \notin WrittenKeys =>
                  /\ HasKey(cache, calc.initial[i].key)
                  /\ CacheGet(cache, calc.initial[i].key) = calc.initial[i]
        /\ CacheKeys(cache) \subseteq WrittenKeys \cup CacheKeys(calc.initial)
        /\ Cardinality(CacheKeys(cache)) = Len(cache)

\* C15 witness: both calls started before either got its response, both
\* returned, the second to return wrote a key that the first had written
\* with another category, and the first wrote a key the second did not
C15_Witness ==
    /\ calc.op = "concurrent"
    /\ Len(calc.events) = 4
    /\ calc.events[1].b # calc.events[2].b
    /\ calc.calls[1].pc = "returned"
    /\ calc.calls[2].pc = "returned"
    /\ Len(calc.writes) = 3
    /\ calc.writes[1].key = "bob"
    /\ calc.writes[2].key = "zed"
    /\ calc.writes[3].key = "bob"
    /\ calc.writes[3].category # calc.writes[1].category
    /\ CacheGet(cache, "bob") = calc.writes[3]
    /\ CacheGet(cache, "zed") = calc.writes[2]

(***************************************************************************)
(* validateExpenseInput (src/src/utils/budgetCalculations.ts)              *)
(*                                                                         *)
(* A number is its sign, its whole part and its thousandths (ten million   *)
(* in thousandths does not fit a 32-bit integer); a validated value is its *)
(* whole part and its hundredths.  The thousandths of the model are those  *)
(* for which numAmount * 100 is exact or is not next to a half in double   *)
(* arithmetic, so Math.round is the rounding of the exact product.         *)
(***************************************************************************)

Number(negative, whole, thousandths) ==
    [nan |-> FALSE, negative |-> negative, whole |-> whole,
     thousandths |-> thousandths]

NotANumber == [nan |-> TRUE, negative |-> FALSE, whole |-> 0, thousandths |-> 0]

\* parseFloat on a string of the model: the longest prefix
\* [+-]digits[.digits] with at least one digit, after leading whitespace
ParseFloatNumber(str) ==
    LET s == TrimStart(str)
        signed == Len(s) > 0 /\ CharAt(s, 1) \in {"+", "-"}
        body == IF signed THEN SubSeq(s, 2, Len(s)) ELSE s
        int == LeadingDigits(body)
        rest == SubSeq(body, Len(int) + 1, Len(body))
        frac == IF Len(rest) > 0 /\ CharAt(rest, 1) = "."
                THEN LeadingDigits(SubSeq(rest, 2, Len(rest)))
                ELSE ""
    IN  IF Len(int) + Len(frac) = 0 THEN NotANumber
        ELSE Number(signed /\ CharAt(s, 1) = "-", Natural(int),
                    Natural(SubSeq(frac \o "000", 1, 3)))

\* an argument of validateExpenseInput: a string or a number
StringAmount(text) == [type |-> "string", text |-> text, number |-> NotANumber]

NumberAmount(number) == [type |-> "number", text |-> "", number |-> number]

\* the largest amount accepted
MaxExpense == 10000000

Validation(valid, whole, hundredths, error) ==
    [valid |-> valid, value |-> [whole |-> whole, hundredths |-> hundredths],
     error |-> error]

\* validateExpenseInput with the limit test written >= instead of >
validateExpenseInput_limitExcluded(amount) ==
    LET numAmount == IF amount.type = "string" THEN ParseFloatNumber(amount.text)
                     ELSE amount.number
        cents == (numAmount.thousandths + 5) \div 10
    IN  IF numAmount.nan
        THEN Validation(FALSE, 0, 0, "Please enter a valid number")
        ELSE IF numAmount.negative /\ (numAmount.whole > 0 \/ numAmount.thousandths > 0)
        THEN Validation(FALSE, 0, 0, "Amount cannot be negative")
        ELSE IF numAmount.whole >= MaxExpense
        THEN Validation(FALSE, 0, 0, "Amount is too large")
        ELSE Validation(TRUE, numAmount.whole + cents \div 100, cents % 100, UNDEFINED)

validateExpenseInput(amount) ==
    LET numAmount == IF amount.type = "string" THEN ParseFloatNumber(amount.text)
                     ELSE amount.number
        \* Math.round(numAmount * 100): halves go up
        cents == (numAmount.thousandths + 5) \div 10
    IN  IF numAmount.nan
        THEN Validation(FALSE, 0, 0, "Please enter a valid number")
        ELSE IF numAmount.negative /\ (numAmount.whole > 0 \/ numAmount.thousandths > 0)
        THEN Validation(FALSE, 0, 0, "Amount cannot be negative")
        ELSE IF \/ numAmount.whole > MaxExpense
                \/ (numAmount.whole = MaxExpense /\ numAmount.thousandths > 0)
        THEN Validation(FALSE, 0, 0, "Amount is too large")
        ELSE Validation(TRUE, numAmount.whole + cents \div 100, cents % 100, UNDEFINED)

ExpenseTexts ==
    { "100.50", "-100", "abc", "20000000", "10000000", "10000000.01",
      "9999999.999", "0", "-0", "", " 7", "12abc", "1,234.56", "R50",
      "0.124", "0.125", "0.126", "-0.001", "+3.5", "." }

ExpenseNumbers ==
    { NotANumber } \cup
    { Number(negative, whole, thousandths) :
        negative \in BOOLEAN,
        whole \in {0, 1, MaxExpense - 1, MaxExpense, MaxExpense + 1},
        thousandths \in {0, 10, 124, 125, 126, 999} }

ExpenseInputs ==
    {StringAmount(text) : text \in ExpenseTexts}
    \cup {NumberAmount(number) : number \in ExpenseNumbers}

InitValidate ==
    /\ cache = << >>
    /\ now = StartTime
    /\ lastOp = NoOp
    /\ written = [k \in {} |-> 0]
    /\ isOpenRouterConfigured = TRUE
    /\ call = IdleCall
    /\ sheet = ClosedSheet
    /\ parse = IdleParse
    /\ \E amount \in ExpenseInputs :
          calc = [op |-> "validate", amount |-> amount, done |-> FALSE,
                  result |-> Validation(FALSE, 0, 0, UNDEFINED)]

ValidateExpense ==
    /\ calc.op = "validate"
    /\ ~calc.done
    /\ calc' = [calc EXCEPT !.done = TRUE,
                            !.result = validateExpenseInput(calc.amount)]
    /\ UNCHANGED <<cacheVars, catVars, importVars>>

NextValidate == ValidateExpense

SpecValidate == InitValidate /\ [][NextValidate]_vars

\* the number the argument stands for
AmountGiven ==
    IF calc.amount.type = "string" THEN ParseFloatNumber(calc.amount.text)
    ELSE calc.amount.number

AmountIsNegative ==
    AmountGiven.negative /\ AmountGiven.whole + AmountGiven.thousandths > 0

AmountIsTooLarge ==
    \/ AmountGiven.whole > MaxExpense
    \/ AmountGiven.whole = MaxExpense /\ AmountGiven.thousandths > 0

Rejected_with(error) ==
    calc.result = [valid |-> FALSE, value |-> [whole |-> 0, hundredths |-> 0],
                   error |-> error]

\* C16: validateExpenseInput rejects with value 0 an argument that is not a
\* number ('Please enter a valid number'), a negative amount ('Amount
\* cannot be negative') and an amount above 10,000,000 ('Amount is too
\* large'); every other amount is valid, without an error, and its value is
\* the hundredth nearest to it, the upper one of two.
C16_ValidateExpenseInput ==
    (calc.op = "validate" /\ calc.done) =>
        IF AmountGiven.nan THEN Rejected_with("Please enter a valid number")
        ELSE IF AmountIsNegative THEN Rejected_with("Amount cannot be negative")
        ELSE IF AmountIsTooLarge THEN Rejected_with("Amount is too large")
        ELSE /\ calc.result.valid
             /\ calc.result.error = UNDEFINED
             /\ calc.result.value.hundredths \in 0..99
             /\ \A distance \in
                    {1000 * (calc.result.value.whole - AmountGiven.whole)
                     + 10 * calc.result.value.hundredths
                     - AmountGiven.thousandths} :
                    distance > -5 /\ distance <= 5

\* C16 witness: ten million is accepted, and 9999999.999 is rounded to it
C16_Witness ==
    /\ calc.op = "validate"
    /\ calc.done
    /\ calc.amount = StringAmount("9999999.999")
    /\ calc.result = Validation(TRUE, MaxExpense, 0, UNDEFINED)

(***************************************************************************)
(* handleCategorize (src/src/components/CsvImportSheet.tsx): the           *)
(* transactions of the sheet go to categorizeTransactions in chunks of     *)
(* chunkSize, one after another.  calc holds the locals of the handler:    *)
(* chunks, the position k of the for-of loop, categorized, and the call it *)
(* awaits; failedAt is the chunk whose call threw.                         *)
(***************************************************************************)

chunkSize == 10

\* txnsToCategorize.slice(i, i + chunkSize) for i = 0, chunkSize, ...
SliceChunks(txns) ==
    [c \in 1..((Len(txns) + chunkSize - 1) \div chunkSize) |->
        SubSeq(txns, (c - 1) * chunkSize + 1,
               IF c * chunkSize < Len(txns) THEN c * chunkSize ELSE Len(txns))]

\* chunk.map(t => ({description, amount, date}))
ChunkRequests(chunk) ==
    [k \in 1..Len(chunk) |->
        [description |-> chunk[k].description, amount |-> chunk[k].amount]]

\* chunk.forEach: {...t, category: result.category, confidence: result.confidence}
Categorized(chunk, results) ==
    [k \in 1..Len(chunk) |->
        [date |-> chunk[k].date,
         description |-> chunk[k].description,
         amount |-> chunk[k].amount,
         category |-> results[k].category,
         selected |-> chunk[k].selected,
         confidence |-> results[k].confidence]]

Repeat(n, description) ==
    [k \in 1..n |-> ParsedTransaction("2024-01-15", description, 120)]

\* the transactions a parser returned: none, one chunk, two chunks of which
\* the first needs no delegate, two and three chunks that need it
ParsedLists ==
    { << >>,
      Repeat(1, "Zed"),
      Repeat(chunkSize, "SPAR Market") \o Repeat(1, " bob. "),
      Repeat(chunkSize, "Zed") \o Repeat(1, " bob. "),
      Repeat(chunkSize, " bob. ") \o Repeat(2, "Zed"),
      Repeat(2 * chunkSize + 1, "Zed") }

\* the JSON arrays the delegate answers a request of n items with
CategorizationsFor(n) ==
    { << >>,
      [k \in 1..n |-> [index |-> k, category |-> "gym", confidence |-> 70]],
      [k \in 1..n |-> [index |-> k, category |-> "bogus", confidence |-> NoConfidence]] }

\* categorizeTransactions(requests) up to its await, on the cache given
Called(requests, stored, at) ==
    LET fresh == [NewCall(requests) EXCEPT !.cacheAtCall = stored, !.calledAt = at]
        pre   == PreProcess(1, requests,
                            [toCategorize |-> << >>,
                             results      |-> fresh.results,
                             cache        |-> stored], at)
    IN  [cache |-> pre.cache,
         call  |-> IF AllResolved(pre.toCategorize)
                   THEN [fresh EXCEPT !.pc = "returned",
                                      !.results = pre.results,
                                      !.out = AssembleResolved(requests, pre.results)]
                   ELSE [fresh EXCEPT !.pc = "awaitFetch",
                                      !.toCategorize = pre.toCategorize,
                                      !.results = pre.results,
                                      !.requests = 1]]

InitCategorize ==
    /\ cache \in InitialCaches
    /\ now = StartTime
    /\ lastOp = NoOp
    /\ written = [k \in {} |-> 0]
    /\ isOpenRouterConfigured \in BOOLEAN
    /\ call = IdleCall
    /\ parse = IdleParse
    /\ \E parsed \in ParsedLists :
          sheet = [ClosedSheet EXCEPT !.file = "bank.CSV",
                                      !.transactions = InitialTransactions(parsed)]
    /\ calc = [op |-> "categorize", pc |-> "idle", chunks |-> << >>, k |-> 0,
               categorized |-> << >>, call |-> IdleCall, failedAt |-> 0]

\* handleCategorize up to its first await
HandleCategorize ==
    /\ calc.op = "categorize"
    /\ calc.pc = "idle"
    /\ IF Len(sheet.transactions) = 0
       THEN /\ calc' = [calc EXCEPT !.pc = "done"]
            /\ UNCHANGED <<sheet, cache>>
       ELSE IF ~isOpenRouterConfigured
       THEN /\ calc' = [calc EXCEPT !.pc = "done"]
            /\ sheet' = [sheet EXCEPT !.error =
                  "OpenRouter API key not configured. Please set VITE_OPENROUTER_API_KEY in your .env file"]
            /\ UNCHANGED cache
       ELSE LET chunks == SliceChunks(sheet.transactions)
                called == Called(ChunkRequests(chunks[1]), cache, now)
            IN  /\ sheet' = [sheet EXCEPT !.categorizing = TRUE, !.error = ""]
                /\ cache' = called.cache
                /\ calc' = [calc EXCEPT !.pc = "awaiting", !.chunks = chunks,
                                        !.k = 1, !.call = called.call]
    /\ UNCHANGED <<now, lastOp, written, catVars, parse>>

\* the loop with the results of chunk k put before those of the chunks
\* before it
AfterResults_prepending(results, stored) ==
    LET categorized == Categorized(calc.chunks[calc.k], results) \o calc.categorized
    IN  IF calc.k < Len(calc.chunks)
        THEN LET called == Called(ChunkRequests(calc.chunks[calc.k + 1]), stored, now)
             IN  /\ calc' = [calc EXCEPT !.k = calc.k + 1,
                                         !.categorized = categorized,
                                         !.call = called.call]
                 /\ cache' = called.cache
                 /\ sheet' = sheet
        ELSE /\ calc' = [calc EXCEPT !.pc = "done", !.categorized = categorized,
                                     !.call = IdleCall]
             /\ cache' = stored
             /\ sheet' = [sheet EXCEPT !.transactions = categorized,
                                       !.categorizing = FALSE]

\* the loop from the results of chunk k to the next await, or to the end of
\* the handler
AfterResults(results, stored) ==
    LET categorized == calc.categorized \o Categorized(calc.chunks[calc.k], results)
    IN  IF calc.k < Len(calc.chunks)
        THEN LET called == Called(ChunkRequests(calc.chunks[calc.k + 1]), stored, now)
             IN  /\ calc' = [calc EXCEPT !.k = calc.k + 1,
                                         !.categorized = categorized,
                                         !.call = called.call]
                 /\ cache' = called.cache
                 /\ sheet' = sheet
        ELSE /\ calc' = [calc EXCEPT !.pc = "done", !.categorized = categorized,
                                     !.call = IdleCall]
             /\ cache' = stored
             /\ sheet' = [sheet EXCEPT !.transactions = categorized,
                                       !.categorizing = FALSE]

\* the call for chunk k had every item resolved by a rule or by the cache
ChunkResolved ==
    /\ calc.op = "categorize"
    /\ calc.pc = "awaiting"
    /\ calc.call.pc = "returned"
    /\ AfterResults(calc.call.out, cache)
    /\ UNCHANGED <<now, lastOp, written, catVars, parse>>

\* the delegate answers the request of the call for chunk k
ChunkAnswered ==
    /\ calc.op = "categorize"
    /\ calc.pc = "awaiting"
    /\ calc.call.pc = "awaitFetch"
    /\ \E categorizations \in CategorizationsFor(Len(calc.call.transactions)) :
          AfterResults(MapCategorizations(calc.call.transactions, categorizations),
                       CacheCategorizations(1, categorizations, calc.call.toCategorize,
                                            cache, now))
    /\ UNCHANGED <<now, lastOp, written, catVars, parse>>

\* the call for chunk k throws: the catch and the finally of the handler
ChunkFailed ==
    /\ calc.op = "categorize"
    /\ calc.pc = "awaiting"
    /\ calc.call.pc = "awaitFetch"
    /\ \E e \in DelegateErrors :
          /\ calc' = [calc EXCEPT !.pc = "done", !.failedAt = calc.k,
                                  !.call = [calc.call EXCEPT !.pc = "threw",
                                                             !.error = e]]
          /\ sheet' = [sheet EXCEPT
                          !.error = "Failed to categorize transactions: " \o e,
                          !.categorizing = FALSE]
    /\ UNCHANGED <<cacheVars, catVars, parse>>

NextCategorize ==
    \/ HandleCategorize
    \/ ChunkResolved
    \/ ChunkAnswered
    \/ ChunkFailed

SpecCategorize == InitCategorize /\ [][NextCategorize]_vars

\* C17: when the call for a chunk other than the first fails, the
\* transactions the sheet shows have the categories that the calls for the
\* earlier chunks returned.
C17_LaterFailureKeepsEarlier ==
    (calc.op = "categorize" /\ calc.pc = "done" /\ calc.failedAt > 1) =>
        /\ Len(calc.categorized) = (calc.failedAt - 1) * chunkSize
        /\ \A k \in 1..Len(calc.categorized) :
              sheet.transactions[k].category = calc.categorized[k].category

(***************************************************************************)
(* Properties of the delegate tier of categorizeTransactions               *)
(***************************************************************************)

\* C18: in a call that returns, an item that was sent to the delegate and
\* for which the delegate returned a category outside VALID_CATEGORIES has
\* the category 'random' and the confidence 0.5.
C18_InvalidCategoryCoerced ==
    call.pc = "returned" =>
        \A i \in 1..Len(Batch) :
            ( /\ TierOf(i) = "delegate"
              /\ Truthy(AnswerFor(i).category)
              /\ ~IsValidCategory(AnswerFor(i).category) ) =>
                /\ call.out[i].category = "random"
                /\ call.out[i].confidence = 50

\* C19: after a call that made a delegate request returns, the cache holds
\* for every item sent to the delegate an entry under the item's normalized
\* description with the category the item has in the output.
C19_DelegateResultsCached ==
    (call.pc = "returned" /\ call.requests > 0) =>
        \A i \in 1..Len(Batch) :
            TierOf(i) = "delegate" =>
                /\ HasKey(cache, normalizeDescription(Batch[i].description))
                /\ CacheGet(cache, normalizeDescription(Batch[i].description)).category
                      = call.out[i].category

(***************************************************************************)
(* Properties of the chunk loop of extractTransactionsWithAI               *)
(***************************************************************************)

\* chunk k failed, and not by the timeout
FailedOtherwise(k) == ~ChunkSucceeded(k) /\ ~TimedOut(k)

\* C20: when the first chunk succeeded and a later chunk failed other than
\* by a timeout (and none timed out), extractTransactionsWithAI submitted
\* every chunk and returns the validated transactions of the chunks that
\* succeeded, in chunk order, without the duplicates; when the first chunk
\* failed other than by a timeout, the call throws that failure and no
\* later chunk was submitted.
C20_LaterFailureSkipsChunk ==
    AiEnded =>
        /\ ( /\ ChunkSucceeded(1)
             /\ \E k \in 2..Len(parse.responses) : FailedOtherwise(k)
             /\ \A k \in 1..Len(parse.responses) : ~TimedOut(k) ) =>
              /\ parse.ai.state = "returned"
              /\ Len(parse.responses) = Len(parse.chunks)
              /\ parse.ai.transactions =
                    DedupExtracted(SucceededTransactions(Len(parse.responses)))
        /\ FailedOtherwise(1) =>
              /\ parse.ai.state = "threw"
              /\ parse.ai.error = ProcessChunk(parse.responses[1]).error
              /\ Len(parse.responses) = 1

\* C20 witness: of three chunks the second failed with an HTTP error, and
\* the call returned transactions of the first and of the third
C20_Witness ==
    /\ AiEnded
    /\ Len(parse.chunks) = 3
    /\ Len(parse.responses) = 3
    /\ ChunkSucceeded(1)
    /\ FailedOtherwise(2)
    /\ parse.responses[2].kind = "resolved"
    /\ ChunkSucceeded(3)
    /\ Len(ProcessChunk(parse.responses[1]).transactions) > 0
    /\ Len(ProcessChunk(parse.responses[3]).transactions) > 0
    /\ parse.ai.state = "returned"
    /\ Len(parse.ai.transactions) = 2
    /\ parse.ai.transactions[1] = ProcessChunk(parse.responses[1]).transactions[1]
    /\ parse.ai.transactions[2] = ProcessChunk(parse.responses[3]).transactions[1]

\* the answer to chunk k has a choices array whose content holds no JSON
\* array and is not JSON as a whole
Unparsable(k) ==
    /\ parse.responses[k].kind = "resolved"
    /\ ReadBody(parse.responses[k]) = NoError
    /\ parse.responses[k].body.choices
    /\ ~parse.responses[k].body.parses

\* C21: a chunk whose content yields no transaction list by either parse
\* contributes no transaction; when it is not the first chunk the next
\* chunk is submitted, and when it is the first chunk
\* extractTransactionsWithAI fails.
C21_UnparsableContent ==
    AiEnded =>
        /\ \A k \in 1..Len(parse.responses) :
              Unparsable(k) => ProcessChunk(parse.responses[k]).transactions = << >>
        /\ \A k \in 2..Len(parse.responses) :
              (Unparsable(k) /\ k < Len(parse.chunks)) => Len(parse.responses) > k
        /\ Unparsable(1) => parse.ai.state = "threw"

(***************************************************************************)
(* The chunk splitter of extractTransactionsWithAI as a step               *)
(***************************************************************************)

\* the most lines of a text
MaxLines == 3

\* line lengths around half the threshold and around the threshold
LineLengths == {0, 10, 5999, 6000, 11999, 12000, 13000}

SplitTexts ==
    { [k \in 1..Len(lengths) |-> Line(lengths[k], << >>)] :
        lengths \in SeqsUpTo(LineLengths, MaxLines) }

InitSplit ==
    /\ cache = << >>
    /\ now = StartTime
    /\ lastOp = NoOp
    /\ written = [k \in {} |-> 0]
    /\ isOpenRouterConfigured = TRUE
    /\ call = IdleCall
    /\ sheet = ClosedSheet
    /\ parse = IdleParse
    /\ \E pdfText \in SplitTexts :
          calc = [op |-> "split", pdfText |-> pdfText, done |-> FALSE,
                  chunks |-> << >>]

SplitText ==
    /\ calc.op = "split"
    /\ ~calc.done
    /\ calc' = [calc EXCEPT !.done = TRUE, !.chunks = SplitChunks(calc.pdfText)]
    /\ UNCHANGED <<cacheVars, catVars, importVars>>

NextSplit == SplitText

SpecSplit == InitSplit /\ [][NextSplit]_vars

\* C22: for a text longer than maxChunkSize, every chunk the splitter makes
\* is shorter than maxChunkSize.
C22_ChunksBelowThreshold ==
    (calc.op = "split" /\ calc.done /\ TextLength(calc.pdfText) > maxChunkSize) =>
        \A k \in 1..Len(calc.chunks) : calc.chunks[k] < maxChunkSize

(***************************************************************************)
(* The delegate requests of an import: the chunks of the extraction and    *)
(* the chunks of the categorization that follows the parse                 *)
(***************************************************************************)

InitSequential ==
    \/ InitImport
    \/ /\ cache \in InitialCaches
       /\ now = StartTime
       /\ lastOp = NoOp
       /\ written = [k \in {} |-> 0]
       /\ isOpenRouterConfigured \in BOOLEAN
       /\ call = IdleCall
       /\ parse = [IdleParse EXCEPT !.pc = "settled"]
       /\ \E parsed \in ParsedLists :
             sheet = [ClosedSheet EXCEPT !.file = "bank.CSV",
                                         !.transactions = InitialTransactions(parsed)]
       /\ calc = [op |-> "categorize", pc |-> "idle", chunks |-> << >>, k |-> 0,
                  categorized |-> << >>, call |-> IdleCall, failedAt |-> 0]

NextSequential == NextImport \/ NextCategorize

SpecSequential == InitSequential /\ [][NextSequential]_vars

\* the extraction requests issued, completed and in flight
ExtractionIssued == IF parse.pc = "fetching" THEN parse.i ELSE Len(parse.responses)

ExtractionCompleted == Len(parse.responses)

\* the position in the chunks of handleCategorize of the j-th transaction
ChunkItem(j) == calc.chunks[((j - 1) \div chunkSize) + 1][((j - 1) % chunkSize) + 1]

\* C23: the requests of an import are made one at a time and in order.
\* While the request for extraction chunk i is in flight, the chunks before
\* it have each been answered or have failed, in that order, and
\* allTransactions holds their transactions in chunk order; no chunk is
\* requested otherwise.  While handleCategorize awaits the call for chunk
\* k, categorized holds the results of the k - 1 chunks before it, and
\* categorized always follows the order of the chunks.
C23_RequestsSequential ==
    /\ ExtractionIssued - ExtractionCompleted = (IF parse.pc = "fetching" THEN 1 ELSE 0)
    /\ ExtractionIssued <= Len(parse.chunks)
    /\ parse.pc = "fetching" =>
          /\ parse.allTransactions = SucceededTransactions(parse.i - 1)
          /\ \A j \in 1..(parse.i - 1) :
                ChunkSucceeded(j) \/ FailedOtherwise(j)
    /\ calc.op = "categorize" =>
          /\ calc.pc = "awaiting" =>
                /\ calc.k \in 1..Len(calc.chunks)
                /\ Len(calc.categorized) = (calc.k - 1) * chunkSize
          /\ calc.pc # "awaiting" => calc.call.pc # "awaitFetch"
          /\ \A j \in 1..Len(calc.categorized) :
                calc.categorized[j].description = ChunkItem(j).description

\* C23 witness: the third chunk of an extraction is in flight after the
\* first was answered with transactions and the second failed
C23_Witness ==
    /\ parse.pc = "fetching"
    /\ parse.i = 3
    /\ ChunkSucceeded(1)
    /\ FailedOtherwise(2)
    /\ Len(parse.allTransactions) > 0
    /\ Len(parse.responses) = 2

\* the answer to chunk k was read and its content parsed to an array
ContentParsed(k) ==
    /\ parse.responses[k].kind = "resolved"
    /\ ReadBody(parse.responses[k]) = NoError
    /\ parse.responses[k].body.choices
    /\ parse.responses[k].body.parses

\* the item taken by itself is kept: it is an object with a description
\* that is a string and not blank and with an amount that is a number other
\* than 0
KeptAlone(item) ==
    /\ ~item.null
    /\ item.text
    /\ Len(trim(item.description)) > 0
    /\ item.numeric
    /\ item.amount # 0

\* C24: of the items of an answer, those that are kept are exactly those
\* that taken by themselves have an amount greater than 0 after coercion
\* and a description that is not empty, whatever the other items are.
C24_ItemsValidatedIndependently ==
    \A k \in 1..Len(parse.responses) :
        ContentParsed(k) =>
            Len(ProcessChunk(parse.responses[k]).transactions)
              = Cardinality({j \in 1..Len(parse.responses[k].body.items) :
                                KeptAlone(parse.responses[k].body.items[j])})

NoValidTransactions == "No valid transactions found in CSV file"

\* C25: parseCsv never returns a result whose transactions and errors are
\* both empty.  The error 'No valid transactions found in CSV file' is
\* returned when the rows were read and gave no transaction, and then it is
\* the only error and there is no transaction; it is returned in no other
\* case.
C25_NeverBothEmpty ==
    CsvParsed =>
        /\ ~(calc.result.transactions = << >> /\ calc.result.errors = << >>)
        /\ (\E k \in 1..Len(calc.result.errors) :
               calc.result.errors[k] = NoValidTransactions)
              <=> ( /\ Len(CsvLines) >= 2
                    /\ Unresolved = {}
                    /\ ExpectedFrom(2) = << >> )
        /\ (\E k \in 1..Len(calc.result.errors) :
               calc.result.errors[k] = NoValidTransactions) =>
              /\ calc.result.transactions = << >>
              /\ calc.result.errors = <<NoValidTransactions>>

\* C25 witness: every row of a text with a resolved header is skipped, one
\* as blank and one for its amount of zero
C25_Witness ==
    /\ CsvParsed
    /\ HeaderResolves
    /\ Len(CsvLines) = 3
    /\ CsvLines[2] = ",,"
    /\ CsvLines[3] = "2024-01-16,Zed,0"
    /\ calc.result = ParseResult(<< >>, <<NoValidTransactions>>)

(***************************************************************************)
(* The scan of a line by extractTransactionsPatternMatching (lines         *)
(* 459-564).  A scanned line is the matches of the two date patterns in    *)
(* the line, the matches of the three amount patterns in combinedLine, and *)
(* the description assembled from the line and the next one.               *)
(***************************************************************************)

ScannedLine(dates, amounts, description) ==
    [dates |-> dates, amounts |-> amounts, description |-> description]

\* the date of a date match, lines 513-540, for the matches of the model
\* (two digits for day and month)
LocatedDate(dateStr) ==
    IF DateShape(dateStr, 4, 2, 2, {"/", "-", "."})
    THEN SubSeq(dateStr, 1, 4) \o "-" \o SubSeq(dateStr, 6, 7) \o "-" \o SubSeq(dateStr, 9, 10)
    ELSE IF DateShape(dateStr, 2, 2, 4, {"/", "-", "."})
    THEN SubSeq(dateStr, 7, 10) \o "-" \o SubSeq(dateStr, 4, 5) \o "-" \o SubSeq(dateStr, 1, 2)
    ELSE IF DateShape(dateStr, 2, 2, 2, {"/", "-", "."})
    THEN "20" \o SubSeq(dateStr, 7, 8) \o "-" \o SubSeq(dateStr, 4, 5) \o "-" \o SubSeq(dateStr, 1, 2)
    ELSE Today

\* the description of lines 483-511, with its default
LocatedDescription(description) ==
    IF Len(description) < 3 THEN "Transaction" ELSE description

\* the loop over the matches of one amount pattern: the first match with a
\* reasonable amount is pushed, and the loop is left
PushLocated(located, line, dateStr, transactions) ==
    IF Len(located) = 0 THEN transactions
    ELSE Append(transactions,
                ParsedTransaction(LocatedDate(dateStr),
                                  LocatedDescription(line.description),
                                  located[1][1]))

ScanAmountMatches(amountMatches, line, dateStr, transactions) ==
    PushLocated(SelectSeq([m \in 1..Len(amountMatches) |->
                              LocatedAmount(amountMatches[m])],
                          LAMBDA located : Len(located) > 0),
                line, dateStr, transactions)

\* the test before the break of lines 555 and 559
LastIsDescribed(transactions) ==
    /\ Len(transactions) > 0
    /\ transactions[Len(transactions)].description # "Transaction"

\* the loop over the amount patterns for one date match; AfterAmountPattern
\* is the loop from the end of the matches of pattern a on
RECURSIVE ScanAmountPatterns(_, _, _, _)
RECURSIVE AfterAmountPattern(_, _, _, _)
AfterAmountPattern(a, line, dateStr, after) ==
    IF LastIsDescribed(after) THEN after
    ELSE ScanAmountPatterns(a + 1, line, dateStr, after)

ScanAmountPatterns(a, line, dateStr, transactions) ==
    IF a > Len(line.amounts) THEN transactions
    ELSE AfterAmountPattern(a, line, dateStr,
                            ScanAmountMatches(line.amounts[a], line, dateStr,
                                              transactions))

\* the loop over the matches of date pattern p; AfterDateMatch is the loop
\* from the end of the amount patterns of match d on
RECURSIVE ScanDateMatches(_, _, _, _)
RECURSIVE AfterDateMatch(_, _, _, _)
AfterDateMatch(d, p, line, after) ==
    IF LastIsDescribed(after) THEN after
    ELSE ScanDateMatches(d + 1, p, line, after)

ScanDateMatches(d, p, line, transactions) ==
    IF d > Len(line.dates[p]) THEN transactions
    ELSE AfterDateMatch(d, p, line,
                        ScanAmountPatterns(1, line, line.dates[p][d], transactions))

\* the date matches of a line under the two date patterns, and the amount
\* matches the digits of those dates give under the three amount patterns:
\* none; a day-first date; a year-first date, whose tail the first pattern
\* matches too; two day-first dates
DateForms ==
    { [dates |-> << << >>, << >> >>,
       amounts |-> << << >>, << >>, << >> >>],
      [dates |-> << <<"15/01/2024">>, << >> >>,
       amounts |-> << <<"15", "01", "202", "4">>, << >>, <<"15", "01", "202", "4">> >>],
      [dates |-> << <<"24-01-15">>, <<"2024-01-15">> >>,
       amounts |-> << <<"202", "4", "-01", "-15">>, << >>, <<"202", "4", "-01", "-15">> >>],
      [dates |-> << <<"15/01/2024", "16/01/2024">>, << >> >>,
       amounts |-> << <<"15", "01", "202", "4", "16", "01", "202", "4">>, << >>,
                      <<"15", "01", "202", "4", "16", "01", "202", "4">> >>] }

\* the amount matches of the rest of combinedLine: none, an amount with
\* cents, a zero
AmountTails ==
    { << << >>, << >>, << >> >>,
      << <<"250.50">>, <<"250.50">>, <<"250">> >>,
      << <<"0.00">>, <<"0.00">>, <<"0">> >> }

ScannedLines ==
    { ScannedLine(form.dates,
                  [a \in 1..3 |-> form.amounts[a] \o tail[a]],
                  description) :
        form \in DateForms, tail \in AmountTails,
        description \in {"", "CHECKERS HYPER"} }

\* what the lines before pushed
EarlierLocated ==
    { << >>,
      <<ParsedTransaction("2024-01-10", "CHECKERS HYPER", 99000)>>,
      <<ParsedTransaction("2024-01-10", "Transaction", 99000)>> }

InitScan ==
    /\ cache = << >>
    /\ now = StartTime
    /\ lastOp = NoOp
    /\ written = [k \in {} |-> 0]
    /\ isOpenRouterConfigured = TRUE
    /\ call = IdleCall
    /\ sheet = ClosedSheet
    /\ parse = IdleParse
    /\ \E line \in ScannedLines, earlier \in EarlierLocated :
          calc = [op |-> "scan", line |-> line, earlier |-> earlier,
                  done |-> FALSE, afterFirst |-> << >>, afterSecond |-> << >>]

\* the second date pattern, on what the first left
ScannedBoth(scanned) ==
    [scanned EXCEPT !.afterSecond =
        ScanDateMatches(1, 2, scanned.line, scanned.afterFirst)]

\* the body of the loop over the lines, for one line: the first date
\* pattern, then the second
ScanLine ==
    /\ calc.op = "scan"
    /\ ~calc.done
    /\ calc' = ScannedBoth([calc EXCEPT
                    !.done = TRUE,
                    !.afterFirst = ScanDateMatches(1, 1, calc.line, calc.earlier)])
    /\ UNCHANGED <<cacheVars, catVars, importVars>>

NextScan == ScanLine

SpecScan == InitScan /\ [][NextScan]_vars

\* C26: the scan of a line pushes at most one transaction for each of the
\* two date patterns.
C26_OnePerDatePatternAndLine ==
    (calc.op = "scan" /\ calc.done) =>
        /\ Len(calc.afterFirst) - Len(calc.earlier) <= 1
        /\ Len(calc.afterSecond) - Len(calc.afterFirst) <= 1

(***************************************************************************)
(* normalizeDescription as a step                                          *)
(***************************************************************************)

\* the longest description
MaxChars == 3

\* an upper-case letter, a lower-case letter, a space and a punctuation mark
DescriptionChars == {"A", "b", " ", "."}

RECURSIVE StringsUpTo(_)
StringsUpTo(n) ==
    IF n = 0 THEN {""}
    ELSE StringsUpTo(n - 1)
         \cup {t \o c : t \in StringsUpTo(n - 1), c \in DescriptionChars}

InitNormalize ==
    /\ cache = << >>
    /\ now = StartTime
    /\ lastOp = NoOp
    /\ written = [k \in {} |-> 0]
    /\ isOpenRouterConfigured = TRUE
    /\ call = IdleCall
    /\ sheet = ClosedSheet
    /\ parse = IdleParse
    /\ \E description \in StringsUpTo(MaxChars) :
          calc = [op |-> "normalize", description |-> description,
                  done |-> FALSE, key |-> ""]

Normalize ==
    /\ calc.op = "normalize"
    /\ ~calc.done
    /\ calc' = [calc EXCEPT !.done = TRUE,
                            !.key = normalizeDescription(calc.description)]
    /\ UNCHANGED <<cacheVars, catVars, importVars>>

NextNormalize == Normalize

SpecNormalize == InitNormalize /\ [][NextNormalize]_vars

\* C27: the cache key of a description has no upper-case letter, no
\* punctuation, no whitespace at either end and no two whitespace
\* characters in a row.
C27_KeyIsCanonical ==
    (calc.op = "normalize" /\ calc.done) =>
        /\ \A k \in 1..Len(calc.key) :
              /\ LowerChar(CharAt(calc.key, k)) = CharAt(calc.key, k)
              /\ IsWordChar(CharAt(calc.key, k)) \/ IsWhitespace(CharAt(calc.key, k))
        /\ Len(calc.key) > 0 =>
              /\ ~IsWhitespace(CharAt(calc.key, 1))
              /\ ~IsWhitespace(CharAt(calc.key, Len(calc.key)))
        /\ \A k \in 1..(Len(calc.key) - 1) :
              ~(IsWhitespace(CharAt(calc.key, k)) /\ IsWhitespace(CharAt(calc.key, k + 1)))

(***************************************************************************)
(* Properties of calls that share the cache                                *)
(***************************************************************************)

\* C28: every category that a call returns is one of VALID_CATEGORIES,
\* whatever the delegate answered to this call or to a call before it.
C28_ReturnedCategoriesValid ==
    calc.op = "concurrent" =>
        \A b \in 1..2 :
            calc.calls[b].pc = "returned" =>
                \A i \in 1..Len(calc.calls[b].out) :
                    IsValidCategory(calc.calls[b].out[i].category)

(***************************************************************************)
(* Properties of the duplicate filters: what is removed                    *)
(***************************************************************************)

SameUnder(rule, tt, t) ==
    IF rule = "located" THEN SameLocated(tt, t) ELSE SameExtracted(tt, t)

\* element k of the input is a first occurrence: nothing before it is its
\* duplicate
FirstOccurrence(k) ==
    \A j \in 1..(k - 1) : ~SameUnder(calc.rule, calc.input[j], calc.input[k])

\* C29: the output of a filter is the subsequence of the first occurrences
\* of its input, and every element that is removed is a duplicate of an
\* earlier element that is kept.
C29_RemovedHaveKeptDuplicate ==
    (calc.op = "dedup" /\ calc.passes >= 1) =>
        /\ calc.once = Pick(calc.input,
                            {k \in 1..Len(calc.input) : FirstOccurrence(k)}, 1)
        /\ \A k \in 1..Len(calc.input) :
              ~FirstOccurrence(k) =>
                  \E j \in 1..(k - 1) :
                      /\ FirstOccurrence(j)
                      /\ SameUnder(calc.rule, calc.input[j], calc.input[k])

(***************************************************************************)
(* Edits of the list while handleCategorize awaits                         *)
(* (src/src/components/CsvImportSheet.tsx).  The rows of the list stay     *)
(* enabled while categorizing is set.  handleToggleSelect copies the       *)
(* array, not its elements, and assigns to the element: the object it      *)
(* changes is the one that txnsToCategorize and the chunks hold.  The loop *)
(* copies an element ({...t}) when the results of its chunk arrive, so     *)
(* calc.chunks follows the edit and calc.categorized does not.  calc.wanted *)
(* is the selection the user left on each row, calc.edits their number.    *)
(* The sheet offers the single category of existingCategories, so the      *)
(* select of a row has nothing to change to while the call is awaited.     *)
(***************************************************************************)

MaxEdits == 2

\* the rows the user edits: the first and the last of the list
EditedRows == {1, Len(sheet.transactions)}

InitEdit ==
    /\ cache \in InitialCaches
    /\ now = StartTime
    /\ lastOp = NoOp
    /\ written = [k \in {} |-> 0]
    /\ isOpenRouterConfigured \in BOOLEAN
    /\ call = IdleCall
    /\ parse = IdleParse
    /\ \E parsed \in ParsedLists :
          /\ sheet = [ClosedSheet EXCEPT !.file = "bank.CSV",
                                        !.transactions = InitialTransactions(parsed)]
          /\ calc = [op |-> "categorize", pc |-> "idle", chunks |-> << >>, k |-> 0,
                     categorized |-> << >>, call |-> IdleCall, failedAt |-> 0,
                     wanted |-> [k \in 1..Len(parsed) |-> TRUE], edits |-> 0]

\* handleToggleSelect(index) while a call of handleCategorize is awaited
HandleToggleSelect ==
    /\ calc.op = "categorize"
    /\ calc.pc = "awaiting"
    /\ calc.edits < MaxEdits
    /\ \E index \in EditedRows :
          LET c        == ((index - 1) \div chunkSize) + 1
              j        == ((index - 1) % chunkSize) + 1
              selected == ~sheet.transactions[index].selected
          IN  /\ sheet' = [sheet EXCEPT !.transactions[index].selected = selected]
              /\ calc' = [calc EXCEPT !.chunks[c][j].selected = selected,
                                      !.wanted[index] = selected,
                                      !.edits = calc.edits + 1]
    /\ UNCHANGED <<cacheVars, catVars, parse>>

NextEdit ==
    \/ HandleCategorize
    \/ ChunkResolved
    \/ ChunkAnswered
    \/ ChunkFailed
    \/ HandleToggleSelect

SpecEdit == InitEdit /\ [][NextEdit]_vars

\* handleCategorize ran to setTransactions(categorized)
CategorizeCompleted ==
    /\ calc.op = "categorize"
    /\ calc.pc = "done"
    /\ calc.failedAt = 0
    /\ Len(calc.categorized) > 0

\* C30: when handleCategorize completes, every row of the list has the
\* selection the user left on it while the calls were awaited, and its date,
\* description and amount are those it had.
C30_EditsSurviveCompletion ==
    CategorizeCompleted =>
        /\ Len(sheet.transactions) = Len(calc.wanted)
        /\ \A index \in 1..Len(sheet.transactions) :
              LET c == ((index - 1) \div chunkSize) + 1
                  j == ((index - 1) % chunkSize) + 1
              IN  /\ sheet.transactions[index].selected = calc.wanted[index]
                  /\ sheet.transactions[index].description =
                         calc.chunks[c][j].description
                  /\ sheet.transactions[index].amount = calc.chunks[c][j].amount
                  /\ sheet.transactions[index].date = calc.chunks[c][j].date

====
